---------------------------- MODULE Spec2Model ----------------------------
(***************************************************************************)
(* The create-or-update-by-name workflow of the knowledge-base plugin      *)
(* (src/tools/create_document_by_text.py): one invocation of               *)
(* CreateDocumentByTextTool._invoke as a state machine.  Each action is a  *)
(* run of consecutive source lines; the values a step reads from outside   *)
(* (credentials, tool parameters, HTTP responses, transport failures) are  *)
(* drawn from small sets at the step that reads them.                      *)
(***************************************************************************)
EXTENDS Integers, Sequences, FiniteSets, TLC

(***************************************************************************)
(* Python / JSON values.  Every value is a record tagged by t; the payload *)
(* field is named after the tag's type so that no two values of different  *)
(* types are ever compared field by field.                                 *)
(***************************************************************************)
PyNone == [t |-> "null"]
Absent == [t |-> "absent"]
Unset == [t |-> "unset"]
JStr(x) == [t |-> "str", s |-> x]
JInt(i) == [t |-> "int", n |-> i]
JBool(v) == [t |-> "bool", b |-> v]
JList(xs) == [t |-> "list", items |-> xs]
JObj(fn) == [t |-> "obj", f |-> fn]
EmptyDict == [k \in {} |-> PyNone]

\* A string on which the code calls strip()/rstrip(): a sequence of tokens.
Ws == [t |-> "ws"]
Slash == [t |-> "slash"]
Chars(x) == [t |-> "chars", s |-> x]
JsonDoc(v) == [t |-> "jsondoc", v |-> v]
Text(ts) == [t |-> "text", toks |-> ts]

IsStr(v) == v.t \in {"str", "text"}
IsDict(v) == v.t = "obj"
IsList(v) == v.t = "list"
\* Python truthiness: bool(v)
Truthy(v) ==
    CASE v.t = "str" -> v.s # ""
      [] v.t = "text" -> v.toks # <<>>
      [] v.t = "int" -> v.n # 0
      [] v.t = "bool" -> v.b
      [] v.t = "list" -> v.items # <<>>
      [] v.t = "obj" -> DOMAIN v.f # {}
      [] OTHER -> FALSE

\* dict.get(key): None when the key is missing
Get(d, key) == IF key \in DOMAIN d.f THEN d.f[key] ELSE PyNone
\* dict.get(key, default)
GetDefault(d, key, default) == IF key \in DOMAIN d.f THEN d.f[key] ELSE default
\* key in dict
HasKey(d, key) == key \in DOMAIN d.f
\* d[key] = value
SetKey(d, key, value) == JObj((key :> value) @@ d.f)
\* tool_parameters.get(key) / tool_parameters.get(key, default) of a drawn input
ParamGet(v) == IF v = Absent THEN PyNone ELSE v
ParamGetDefault(v, default) == IF v = Absent THEN default ELSE v

\* str(v) inside an f-string
PyStr(v) ==
    CASE v.t = "str" -> v.s
      [] v.t = "int" -> ToString(v.n)
      [] v.t = "bool" -> IF v.b THEN "True" ELSE "False"
      [] v.t = "null" -> "None"
      [] OTHER -> "<repr>"

\* str.strip(): drop leading and trailing whitespace tokens
RECURSIVE LStrip(_)
LStrip(ts) == IF ts # <<>> /\ Head(ts) = Ws THEN LStrip(Tail(ts)) ELSE ts
RECURSIVE RStrip(_)
RStrip(ts) ==
    IF ts # <<>> /\ ts[Len(ts)] = Ws THEN RStrip(SubSeq(ts, 1, Len(ts) - 1)) ELSE ts
Strip(ts) == RStrip(LStrip(ts))
\* str.rstrip("/"): drop trailing slashes
RECURSIVE RStripSlash(_)
RStripSlash(ts) ==
    IF ts # <<>> /\ ts[Len(ts)] = Slash
    THEN RStripSlash(SubSeq(ts, 1, Len(ts) - 1)) ELSE ts

(***************************************************************************)
(* Exceptions.  An exception is its class and str(e).                      *)
(***************************************************************************)
NoExc == [t |-> "noexc"]
Exc(type, msg) == [t |-> "exc", type |-> type, msg |-> msg]
\* except RuntimeError
IsRuntimeError(e) == e.type = "RuntimeError"
AttributeError == Exc("AttributeError", "object has no attribute 'get'")
TypeError == Exc("TypeError", "object does not support this operation")
JSONDecodeError == Exc("JSONDecodeError", "Expecting value")

\* json.loads(s) of a stripped string: the document it holds, or a decode error
JsonLoads(ts) ==
    IF Len(ts) = 1 /\ ts[1].t = "jsondoc"
    THEN [exc |-> NoExc, value |-> ts[1].v]
    ELSE [exc |-> JSONDecodeError, value |-> PyNone]

DEFAULT_INDEXING_TECHNIQUE == JStr("high_quality")
DEFAULT_PROCESS_RULE == JObj([mode |-> JStr("automatic")])

Min(S) == CHOOSE x \in S : \A y \in S : x <= y

\* obj.get(...) on a value that may not be a dict: the exception Python raises
GetFails(v) == ~IsDict(v)

(***************************************************************************)
(* _validate_pre_processing_rules                                          *)
(***************************************************************************)
\* variant of PreProcessingRuleError: enabled is tested for truth, not for its type
PreProcessingRuleErrorTruthyEnabled(rule) ==
    IF GetFails(rule) THEN AttributeError
    ELSE IF ~Truthy(Get(rule, "id"))
    THEN Exc("ValueError", "Process rule pre_processing_rules id is required")
    ELSE IF ~Truthy(Get(rule, "enabled"))
    THEN Exc("ValueError", "Process rule pre_processing_rules enabled must be a boolean")
    ELSE NoExc

PreProcessingRuleError(rule) ==
    \* isinstance(v, bool)
    LET IsBool(v) == v.t = "bool"
    IN
    IF GetFails(rule) THEN AttributeError
    ELSE IF ~Truthy(Get(rule, "id"))
    THEN Exc("ValueError", "Process rule pre_processing_rules id is required")
    ELSE IF ~IsBool(Get(rule, "enabled"))
    THEN Exc("ValueError", "Process rule pre_processing_rules enabled must be a boolean")
    ELSE NoExc

validate_pre_processing_rules(pre_processing_rules) ==
    IF pre_processing_rules = PyNone
    THEN Exc("ValueError",
             "Process rule pre_processing_rules is required for custom/hierarchical mode")
    ELSE IF IsList(pre_processing_rules)
    THEN LET items == pre_processing_rules.items
             bad == {i \in 1..Len(items) : PreProcessingRuleError(items[i]) # NoExc}
         IN IF bad = {} THEN NoExc ELSE PreProcessingRuleError(items[Min(bad)])
    \* iterating a dict or a str yields str elements, which have no get();
    \* an empty one yields nothing; any other value is not iterable
    ELSE IF IsDict(pre_processing_rules) \/ IsStr(pre_processing_rules)
    THEN IF Truthy(pre_processing_rules) THEN AttributeError ELSE NoExc
    ELSE TypeError

(***************************************************************************)
(* _validate_segmentation_rules                                            *)
(***************************************************************************)
validate_segmentation_rules(segmentation, mode, parent_mode) ==
    LET MaxTokensError(max_tokens) ==
            \* isinstance(v, int): Python's bool is a subclass of int
            LET IsInt(v) == v.t \in {"int", "bool"}
            IN
            IF max_tokens = PyNone
            THEN Exc("ValueError", "Process rule segmentation max_tokens is required")
            ELSE IF ~IsInt(max_tokens)
            THEN Exc("ValueError", "Process rule segmentation max_tokens must be an integer")
            ELSE NoExc
    IN
    IF segmentation = PyNone
    THEN Exc("ValueError",
             "Process rule segmentation is required for custom/hierarchical mode")
    ELSE IF GetFails(segmentation) THEN AttributeError
    ELSE IF Get(segmentation, "separator") = PyNone
    THEN Exc("ValueError", "Process rule segmentation separator is required")
    ELSE IF ~IsStr(Get(segmentation, "separator"))
    THEN Exc("ValueError", "Process rule segmentation separator must be a string")
    ELSE IF ~(mode = JStr("hierarchical") /\ parent_mode = JStr("full-doc"))
    THEN MaxTokensError(Get(segmentation, "max_tokens"))
    ELSE NoExc

(***************************************************************************)
(* _validate_process_rule_structure                                        *)
(***************************************************************************)
\* variant of validate_process_rule_structure: the mode is not checked
validate_process_rule_structure_any_mode(process_rule) ==
    IF GetFails(process_rule) THEN AttributeError ELSE NoExc

validate_process_rule_structure(process_rule) ==
    IF GetFails(process_rule) THEN AttributeError
    ELSE LET mode == Get(process_rule, "mode")
             rules == Get(process_rule, "rules")
         IN IF mode \notin {JStr("automatic"), JStr("custom"), JStr("hierarchical")}
            THEN Exc("ValueError",
                     "Invalid process_rule mode: " \o PyStr(mode)
                       \o ". Must be 'automatic', 'custom', or 'hierarchical'")
            ELSE IF mode \in {JStr("custom"), JStr("hierarchical")}
            THEN IF ~Truthy(rules)
                 THEN Exc("ValueError",
                          "Process rule 'rules' is required for custom or hierarchical mode")
                 ELSE IF GetFails(rules) THEN AttributeError
                 ELSE IF validate_pre_processing_rules(Get(rules, "pre_processing_rules")) # NoExc
                 THEN validate_pre_processing_rules(Get(rules, "pre_processing_rules"))
                 ELSE validate_segmentation_rules(Get(rules, "segmentation"), mode,
                                                  Get(rules, "parent_mode"))
            ELSE NoExc

(***************************************************************************)
(* _resolve_indexing_technique: [exc, value]                               *)
(***************************************************************************)
\* variant of resolve_indexing_technique: only the two known techniques pass
resolve_indexing_technique_enumerated(indexing_technique) ==
    IF indexing_technique = PyNone
    THEN [exc |-> NoExc, value |-> DEFAULT_INDEXING_TECHNIQUE]
    ELSE IF IsStr(indexing_technique)
    THEN LET stripped == Strip(indexing_technique.toks)
         IN IF stripped = <<>>
            THEN [exc |-> NoExc, value |-> DEFAULT_INDEXING_TECHNIQUE]
            ELSE IF stripped \in {<<Chars("high_quality")>>, <<Chars("economy")>>}
            THEN [exc |-> NoExc, value |-> Text(stripped)]
            ELSE [exc |-> Exc("ValueError", "indexing_technique is not supported"),
                  value |-> PyNone]
    ELSE [exc |-> Exc("ValueError", "indexing_technique must be a string"),
          value |-> PyNone]

resolve_indexing_technique(indexing_technique) ==
    IF indexing_technique = PyNone
    THEN [exc |-> NoExc, value |-> DEFAULT_INDEXING_TECHNIQUE]
    ELSE IF IsStr(indexing_technique)
    THEN LET stripped == Strip(indexing_technique.toks)
         IN IF stripped = <<>>
            THEN [exc |-> NoExc, value |-> DEFAULT_INDEXING_TECHNIQUE]
            ELSE [exc |-> NoExc, value |-> Text(stripped)]
    ELSE [exc |-> Exc("ValueError", "indexing_technique must be a string"),
          value |-> PyNone]

(***************************************************************************)
(* _load_process_rule: [exc, value]                                        *)
(***************************************************************************)
\* variant of load_process_rule: an automatic rule is normalised to the default
load_process_rule_normalised(process_rule_raw) ==
    IF process_rule_raw = PyNone
    THEN [exc |-> validate_process_rule_structure(DEFAULT_PROCESS_RULE),
          value |-> DEFAULT_PROCESS_RULE]
    ELSE IF ~IsStr(process_rule_raw)
    THEN [exc |-> Exc("ValueError", "process_rule must be provided as a JSON string"),
          value |-> PyNone]
    ELSE LET process_rule_str == Strip(process_rule_raw.toks)
             loaded == JsonLoads(process_rule_str)
         IN IF process_rule_str = <<>>
            THEN [exc |-> validate_process_rule_structure(DEFAULT_PROCESS_RULE),
                  value |-> DEFAULT_PROCESS_RULE]
            ELSE IF loaded.exc # NoExc THEN loaded
            ELSE [exc |-> validate_process_rule_structure(loaded.value),
                  value |-> IF IsDict(loaded.value)
                                /\ Get(loaded.value, "mode") = JStr("automatic")
                            THEN DEFAULT_PROCESS_RULE ELSE loaded.value]

\* variant of load_process_rule: the input is not stripped
load_process_rule_unstripped(process_rule_raw) ==
    IF process_rule_raw = PyNone
    THEN [exc |-> validate_process_rule_structure(DEFAULT_PROCESS_RULE),
          value |-> DEFAULT_PROCESS_RULE]
    ELSE IF ~IsStr(process_rule_raw)
    THEN [exc |-> Exc("ValueError", "process_rule must be provided as a JSON string"),
          value |-> PyNone]
    ELSE LET process_rule_str == process_rule_raw.toks
             loaded == JsonLoads(process_rule_str)
         IN IF process_rule_str = <<>>
            THEN [exc |-> validate_process_rule_structure(DEFAULT_PROCESS_RULE),
                  value |-> DEFAULT_PROCESS_RULE]
            ELSE IF loaded.exc # NoExc THEN loaded
            ELSE [exc |-> validate_process_rule_structure(loaded.value),
                  value |-> loaded.value]

load_process_rule(process_rule_raw) ==
    IF process_rule_raw = PyNone
    THEN [exc |-> validate_process_rule_structure(DEFAULT_PROCESS_RULE),
          value |-> DEFAULT_PROCESS_RULE]
    ELSE IF ~IsStr(process_rule_raw)
    THEN [exc |-> Exc("ValueError", "process_rule must be provided as a JSON string"),
          value |-> PyNone]
    ELSE LET process_rule_str == Strip(process_rule_raw.toks)
             loaded == JsonLoads(process_rule_str)
         IN IF process_rule_str = <<>>
            THEN [exc |-> validate_process_rule_structure(DEFAULT_PROCESS_RULE),
                  value |-> DEFAULT_PROCESS_RULE]
            ELSE IF loaded.exc # NoExc THEN loaded
            ELSE [exc |-> validate_process_rule_structure(loaded.value),
                  value |-> loaded.value]

(***************************************************************************)
(* _load_metadata: [exc, value]                                            *)
(***************************************************************************)
\* variant of MetadataItemError: the value must be non-empty, not merely present
MetadataItemErrorTruthyValue(item) ==
    IF ~IsDict(item)
    THEN Exc("ValueError", "Each metadata item must be an object")
    ELSE IF ~Truthy(Get(item, "id"))
    THEN Exc("ValueError", "Each metadata item must have an 'id' field")
    ELSE IF ~Truthy(Get(item, "name"))
    THEN Exc("ValueError", "Each metadata item must have a 'name' field")
    ELSE IF ~Truthy(Get(item, "value"))
    THEN Exc("ValueError", "Each metadata item must have a 'value' field")
    ELSE NoExc

MetadataItemError(item) ==
    IF ~IsDict(item)
    THEN Exc("ValueError", "Each metadata item must be an object")
    ELSE IF ~Truthy(Get(item, "id"))
    THEN Exc("ValueError", "Each metadata item must have an 'id' field")
    ELSE IF ~Truthy(Get(item, "name"))
    THEN Exc("ValueError", "Each metadata item must have a 'name' field")
    ELSE IF ~HasKey(item, "value")
    THEN Exc("ValueError", "Each metadata item must have a 'value' field")
    ELSE NoExc

load_metadata(metadata_raw) ==
    IF metadata_raw = PyNone THEN [exc |-> NoExc, value |-> PyNone]
    ELSE IF ~IsStr(metadata_raw)
    THEN [exc |-> Exc("ValueError", "metadata_json must be provided as a JSON string"),
          value |-> PyNone]
    ELSE LET metadata_str == Strip(metadata_raw.toks)
             loaded == JsonLoads(metadata_str)
         IN IF metadata_str = <<>> THEN [exc |-> NoExc, value |-> PyNone]
            ELSE IF loaded.exc # NoExc THEN loaded
            ELSE IF ~IsList(loaded.value)
            THEN [exc |-> Exc("ValueError", "metadata_json must be a JSON array"),
                  value |-> PyNone]
            ELSE LET items == loaded.value.items
                     bad == {i \in 1..Len(items) : MetadataItemError(items[i]) # NoExc}
                 IN IF bad = {} THEN [exc |-> NoExc, value |-> loaded.value]
                    ELSE [exc |-> MetadataItemError(items[Min(bad)]), value |-> PyNone]

(***************************************************************************)
(* HTTP.  A call's outcome is a response (status, body) or a transport     *)
(* exception.  A body is its raw text together with what response.json()   *)
(* decodes it to (NotJson when it does not decode).                        *)
(***************************************************************************)
NotJson == [t |-> "notjson"]
Body(text, json) == [text |-> text, json |-> json]
Response(status, body) == [t |-> "response", status |-> status, body |-> body]
TimeoutException == Exc("TimeoutException", "timed out")
ConnectError == Exc("ConnectError", "All connection attempts failed")
\* response.json(): [exc, value]
ResponseJson(response) ==
    IF response.body.json = NotJson
    THEN [exc |-> JSONDecodeError, value |-> PyNone]
    ELSE [exc |-> NoExc, value |-> response.body.json]
\* a or b: the first operand when it is truthy
Or(a, b) == IF Truthy(a) THEN a ELSE b

(***************************************************************************)
(* _raise_for_status: the exception raised, or NoExc                       *)
(***************************************************************************)
\* variant of StatusOk: no upper bound on the accepted status
StatusOkNoUpperBound(status) == 200 <= status
StatusOk(status) == 200 <= status /\ status < 300

\* variant of raise_for_status: the body is never consulted
raise_for_status_bare(response, message) ==
    IF StatusOk(response.status) THEN NoExc
    ELSE Exc("RuntimeError", message \o ": HTTP " \o ToString(response.status))

raise_for_status(response, message) ==
    IF StatusOk(response.status) THEN NoExc
    ELSE LET parsed == ResponseJson(response)
             detail ==
                 IF parsed.exc = NoExc
                 THEN IF IsDict(parsed.value)
                      THEN Or(Get(parsed.value, "message"),
                              Or(Get(parsed.value, "error"), Get(parsed.value, "detail")))
                      ELSE PyNone
                 ELSE IF response.body.text # "" THEN JStr(response.body.text)
                 ELSE PyNone
         IN IF Truthy(detail)
            THEN Exc("RuntimeError", message \o ": " \o PyStr(detail))
            ELSE Exc("RuntimeError", message \o ": HTTP " \o ToString(response.status))

(***************************************************************************)
(* _find_document_id_by_name, from the listing call's outcome: [exc, value]*)
(***************************************************************************)
\* variant of FindMatches: line 148 is left out, the entry's id is not examined
FindMatchesAnyId(item, document_name) ==
    /\ IsDict(item)
    /\ Get(item, "name") = document_name
FindMatches(item, document_name) ==
    /\ IsDict(item)
    /\ Get(item, "name") = document_name
    /\ Get(item, "id").t = "str"
    /\ Truthy(Get(item, "id"))

\* variant of find_document_id_by_name: a failed or undecodable listing is not-found
find_document_id_by_name_lenient(outcome, document_name) ==
    IF outcome.t = "exc" THEN [exc |-> outcome, value |-> PyNone]
    ELSE LET payload == ResponseJson(outcome)
         IN IF ~StatusOk(outcome.status) \/ payload.exc # NoExc
                \/ ~IsDict(payload.value)
            THEN [exc |-> NoExc, value |-> PyNone]
            ELSE IF ~IsList(Get(payload.value, "data"))
            THEN [exc |-> NoExc, value |-> PyNone]
            ELSE LET documents == Get(payload.value, "data").items
                     hits == {i \in 1..Len(documents) :
                                 FindMatches(documents[i], document_name)}
                 IN [exc |-> NoExc,
                     value |-> IF hits = {} THEN PyNone
                               ELSE Get(documents[Min(hits)], "id")]

find_document_id_by_name(outcome, document_name) ==
    IF outcome.t = "exc" THEN [exc |-> outcome, value |-> PyNone]
    ELSE IF raise_for_status(outcome, "Failed to query existing documents") # NoExc
    THEN [exc |-> raise_for_status(outcome, "Failed to query existing documents"),
          value |-> PyNone]
    ELSE LET payload == ResponseJson(outcome)
         IN IF payload.exc # NoExc
            THEN [exc |-> Exc("RuntimeError",
                              "Unexpected response while searching documents: "
                                  \o payload.exc.msg),
                  value |-> PyNone]
            ELSE IF ~IsDict(payload.value) THEN [exc |-> NoExc, value |-> PyNone]
            ELSE IF ~IsList(Get(payload.value, "data"))
            THEN [exc |-> NoExc, value |-> PyNone]
            ELSE LET documents == Get(payload.value, "data").items
                     hits == {i \in 1..Len(documents) :
                                 FindMatches(documents[i], document_name)}
                 IN [exc |-> NoExc,
                     value |-> IF hits = {} THEN PyNone
                               ELSE Get(documents[Min(hits)], "id")]

(***************************************************************************)
(* _assign_metadata, from the metadata call's outcome: the dict returned   *)
(***************************************************************************)
\* variant of AssignStatusOk: every 2xx status counts as success
AssignStatusOk2xx(status) == 200 <= status /\ status < 300
AssignStatusOk(status) == status = 200

assign_metadata(outcome) ==
    IF outcome.t = "exc"
    THEN JObj([success |-> JBool(FALSE),
               message |-> JStr("Metadata assignment error: " \o outcome.msg)])
    ELSE IF AssignStatusOk(outcome.status)
    THEN JObj([success |-> JBool(TRUE), message |-> JStr("Metadata assigned successfully")])
    ELSE LET error_json == ResponseJson(outcome)
             text == JStr(outcome.body.text)
             error_detail ==
                 IF error_json.exc # NoExc \/ GetFails(error_json.value) THEN text
                 ELSE GetDefault(error_json.value, "message",
                                 GetDefault(error_json.value, "error", text))
         IN JObj([success |-> JBool(FALSE),
                  message |-> JStr("Metadata assignment failed (HTTP "
                                   \o ToString(outcome.status) \o "): "
                                   \o PyStr(error_detail))])

(***************************************************************************)
(* The outer handlers of _invoke (lines 372-380): the text yielded for an  *)
(* exception, or Unset when no handler matches and it propagates.          *)
(***************************************************************************)
\* variant of IsException: the last handler catches ValueError only
IsExceptionValueErrorOnly(e) == e.type \in {"ValueError", "JSONDecodeError"}
\* except Exception: every exception class the workflow can raise derives from it
IsException(e) == e.type \in {"ValueError", "JSONDecodeError", "RuntimeError",
                              "AttributeError", "TypeError", "TimeoutException",
                              "ConnectError"}

\* variant of invoke_except: no handler of its own for a timeout
invoke_except_generic(e) ==
    IF IsRuntimeError(e) THEN JStr(e.msg)
    ELSE IF IsException(e) THEN JStr("Error: " \o e.msg)
    ELSE Unset

invoke_except(e) ==
    \* except httpx.TimeoutException
    LET IsTimeoutException(x) == x.type = "TimeoutException"
    IN
    IF IsTimeoutException(e)
    THEN JStr("Request timed out. The document may still be processing.")
    ELSE IF IsRuntimeError(e) THEN JStr(e.msg)
    ELSE IF IsException(e) THEN JStr("Error: " \o e.msg)
    ELSE Unset

(***************************************************************************)
(* Bounds and the sets the inputs are drawn from.                          *)
(***************************************************************************)
\* longest metadata_json array
MaxMeta == 1
\* longest document listing returned by the lookup
MaxListing == 2

SeqsUpTo(S, n) == UNION {[1..k -> S] : k \in 0..n}

IndexingTechniqueInputs ==
    {Absent, Text(<<Ws>>), Text(<<Ws, Chars("economy"), Ws>>), JInt(5)}
DocFormInputs == {Absent, JStr(""), JStr("hierarchical_model")}
DocLanguageInputs == {Absent, JStr(""), JStr("English")}

ProcessRuleInputs ==
    LET ValidRules ==
            JObj([pre_processing_rules |->
                      JList(<<JObj([id |-> JStr("remove_extra_spaces"), enabled |-> JBool(TRUE)])>>),
                  segmentation |-> JObj([separator |-> JStr("\n"), max_tokens |-> JInt(500)])])
    IN
    {Absent,
     JInt(5),
     Text(<<Ws>>),
     Text(<<Chars("{oops")>>),
     Text(<<JsonDoc(JList(<<>>))>>),
     Text(<<JsonDoc(JObj([mode |-> JStr("automatic")]))>>),
     Text(<<JsonDoc(JObj([mode |-> JStr("bogus")]))>>),
     Text(<<JsonDoc(JObj([mode |-> JStr("custom")]))>>),
     Text(<<Ws, JsonDoc(JObj([mode |-> JStr("custom"), rules |-> ValidRules])), Ws>>)}

TransportErrors == {TimeoutException, ConnectError}
ErrorBodies ==
    {Body("", NotJson),
     Body("Bad Gateway", NotJson),
     Body("{\"message\": \"quota exceeded\"}", JObj([message |-> JStr("quota exceeded")])),
     Body("{\"message\": \"\", \"error\": \"denied\"}",
          JObj([message |-> JStr(""), error |-> JStr("denied")])),
     Body("{\"detail\": \"not allowed\"}", JObj([detail |-> JStr("not allowed")])),
     Body("{\"code\": \"x\"}", JObj([code |-> JStr("x")])),
     Body("[]", JList(<<>>))}
ErrorOutcomes ==
    LET ErrorStatuses == {300, 500}
    IN
    TransportErrors \cup {Response(st, b) : st \in ErrorStatuses, b \in ErrorBodies}

LookupBodies ==
    LET ListingEntries ==
            {JStr("Report"),
             JObj([name |-> JStr("Report"), id |-> JStr("d1")]),
             JObj([name |-> JStr("Report"), id |-> JStr("d2")]),
             JObj([name |-> JStr("Report"), id |-> JStr("")]),
             JObj([name |-> JStr("Report"), id |-> JInt(42)]),
             JObj([name |-> JStr("Report")]),
             JObj([name |-> JStr("report"), id |-> JStr("d3")]),
             JObj([name |-> JStr("Report 2"), id |-> JStr("d4")])}
    IN
    {Body("<html>", NotJson),
     Body("[]", JList(<<>>)),
     Body("{}", JObj(EmptyDict)),
     Body("{\"data\": null}", JObj([data |-> PyNone]))}
    \cup {Body("<listing>", JObj([data |-> JList(docs)])) :
              docs \in SeqsUpTo(ListingEntries, MaxListing)}
LookupOutcomes ==
    ErrorOutcomes \cup {Response(st, b) : st \in {200, 299}, b \in LookupBodies}

WriteDocuments ==
    {PyNone, JStr("d1"), JObj(EmptyDict), JObj([id |-> PyNone]), JObj([id |-> JStr("")]),
     JObj([id |-> JStr("d1")]), JObj([id |-> JStr("d9")])}
WriteBodies ==
    LET WriteBatches == {JStr(""), JStr("b1")}
    IN
    {Body("", NotJson), Body("[]", JList(<<>>)), Body("{}", JObj(EmptyDict)),
     Body("{batch}", JObj([batch |-> JStr("b1")]))}
    \cup {Body("{document}", JObj([document |-> d])) : d \in WriteDocuments}
    \cup {Body("{document, batch}", JObj([document |-> d, batch |-> b])) :
              d \in WriteDocuments, b \in WriteBatches}
WriteOutcomes ==
    ErrorOutcomes \cup {Response(st, b) : st \in {200, 201}, b \in WriteBodies}

AssignOutcomes ==
    TransportErrors
    \cup {Response(200, Body("{}", JObj(EmptyDict)))}
    \cup {Response(st, b) : st \in {201, 500},
                            b \in {Body("", NotJson),
                                   Body("{\"message\": \"not found\"}",
                                        JObj([message |-> JStr("not found")])),
                                   Body("{\"error\": \"denied\"}",
                                        JObj([error |-> JStr("denied")]))}}

(***************************************************************************)
(* State: the locals of _invoke, the requests sent and the messages        *)
(* yielded so far.                                                         *)
(***************************************************************************)
VARIABLES
    pc,                    \* position in _invoke
    api_secret,            \* line 226
    base_url_credential,   \* line 227
    dataset_id,            \* line 237
    document_name,         \* line 238
    text,                  \* line 239
    data,                  \* lines 261-282: the write request's body
    metadata_json,         \* line 293: tool_parameters.get("metadata_json")
    metadata_list,         \* lines 291-293
    existing_document_id,  \* line 302
    operation,             \* lines 306, 310
    url,                   \* lines 307, 311
    response,              \* line 314: the write call's response
    result,                \* lines 317-348
    final_document_id,     \* lines 321-331
    metadata_result,       \* lines 336-347
    exc,                   \* the exception propagating to the outer handlers
    failed_at,             \* history: the step at which the invocation failed, or ""
    requests,              \* the outbound HTTP requests issued, in order
    slept,                 \* how many times time.sleep(1) ran
    messages,              \* the messages yielded, in order
    credentials,           \* the provider's _validate_credentials: its argument
    fn,                    \* a method called on its own: its name,
    args,                  \*   its arguments
    ret,                   \*   and what it returned or raised (Unset before the call)
    remote                 \* the remote dataset the invocations of one run share

locals == <<api_secret, base_url_credential, dataset_id, document_name, text, data,
            metadata_json, metadata_list, existing_document_id, operation, url, response, result,
            final_document_id, metadata_result>>
\* what _invoke never touches
others == <<credentials, fn, args, ret, remote>>
vars == <<pc, locals, exc, failed_at, requests, slept, messages, others>>

TextMessage(s) == [type |-> "text", text |-> s]
JsonMessage(v) == [type |-> "json", json |-> v]

Init ==
    /\ pc = "start"
    /\ api_secret = Unset
    /\ base_url_credential = Unset
    /\ dataset_id = Unset
    /\ document_name = Unset
    /\ text = Unset
    /\ data = Unset
    /\ metadata_json = Unset
    /\ metadata_list = Unset
    /\ existing_document_id = Unset
    /\ operation = Unset
    /\ url = Unset
    /\ response = Unset
    /\ result = Unset
    /\ final_document_id = Unset
    /\ metadata_result = Unset
    /\ exc = NoExc
    /\ failed_at = ""
    /\ requests = <<>>
    /\ slept = 0
    /\ messages = <<>>
    /\ credentials = Unset
    /\ fn = ""
    /\ args = <<>>
    /\ ret = Unset
    /\ remote = Unset

\* yield self.create_text_message(s); return
YieldTextAndReturn(s) ==
    /\ messages' = Append(messages, TextMessage(s))
    /\ pc' = "done"

\* a failure handled where it is found: one text message, then return
Fail(s) ==
    /\ YieldTextAndReturn(s)
    /\ failed_at' = pc

\* an exception propagates out of the try body to the handlers of lines 372-380
Raise(e) ==
    /\ exc' = e
    /\ pc' = "except"
    /\ failed_at' = pc

(***************************************************************************)
(* Values _invoke derives from its locals.                                 *)
(***************************************************************************)
\* line 253
base_url == RStripSlash(base_url_credential.toks)
\* line 254
dataset_base_url == base_url \o <<Slash, Chars("datasets"), Slash, Chars(PyStr(dataset_id))>>
\* lines 255-258
headers == [Authorization |-> "Bearer " \o PyStr(api_secret),
            ContentType |-> "application/json"]

Request(method, u, params, json, timeout) ==
    [method |-> method, url |-> u, headers |-> headers, params |-> params,
     json |-> json, timeout |-> timeout]

\* lines 129-130: the listing request
FindRequestOf(name) ==
    Request("GET", dataset_base_url \o <<Slash, Chars("documents")>>,
            [keyword |-> name, limit |-> 100, page |-> 1], PyNone, 60)
\* variant of OperationOf: the branch is not taken, every write is recorded as a create
OperationOfAlwaysCreate(existing) == "create"
\* lines 304-311: the branch on the lookup's result
OperationOf(existing) == IF Truthy(existing) THEN "update" ELSE "create"
UrlOf(existing) ==
    IF Truthy(existing)
    THEN dataset_base_url
             \o <<Slash, Chars("documents"), Slash, Chars(PyStr(existing)), Slash,
                  Chars("update-by-text")>>
    ELSE dataset_base_url \o <<Slash, Chars("document"), Slash, Chars("create-by-text")>>
\* line 314: the write request
WriteRequestOf(u, body) == Request("POST", u, PyNone, body, 120)
\* lines 161-172: the metadata request
AssignRequestOf(document_id, metadata) ==
    Request("POST",
            base_url \o <<Slash, Chars("datasets"), Slash, Chars(PyStr(dataset_id)), Slash,
                          Chars("documents"), Slash, Chars("metadata")>>,
            PyNone,
            JObj([operation_data |->
                      JList(<<JObj([document_id |-> document_id,
                                    metadata_list |-> metadata])>>)]),
            60)

\* variant of BuildDataOf: doc_form is copied whenever the key was passed
BuildDataOfEmptyForm(technique, doc_form, doc_language) ==
    LET base == [text |-> text, name |-> document_name, indexing_technique |-> technique]
        form == IF doc_form # PyNone THEN "doc_form" :> doc_form ELSE EmptyDict
        lang == IF doc_language \notin {PyNone, JStr("")}
                THEN "doc_language" :> doc_language ELSE EmptyDict
    IN JObj(lang @@ form @@ base)
\* lines 260-277: the request body before process_rule is added
BuildDataOf(technique, doc_form, doc_language) ==
    LET base == [text |-> text, name |-> document_name, indexing_technique |-> technique]
        form == IF doc_form \notin {PyNone, JStr("")}
                THEN "doc_form" :> doc_form ELSE EmptyDict
        lang == IF doc_language \notin {PyNone, JStr("")}
                THEN "doc_language" :> doc_language ELSE EmptyDict
    IN JObj(lang @@ form @@ base)

\* lines 283-288 and 294-299: the inner handlers; the text yielded, or Unset when
\* the exception is not caught there
inner_except(e, param) ==
    \* except ValueError: json.JSONDecodeError is a subclass of ValueError
    LET IsValueError(x) == x.type \in {"ValueError", "JSONDecodeError"}
    IN
    \* except json.JSONDecodeError
    LET IsJSONDecodeError(x) == x.type = "JSONDecodeError"
    IN
    IF IsJSONDecodeError(e) THEN JStr("Invalid JSON format for " \o param \o ": " \o e.msg)
    ELSE IF IsValueError(e) THEN JStr("Invalid " \o param \o ": " \o e.msg)
    ELSE Unset

\* variant of ExtractDocumentId: the lookup's id is preferred to the embedded one
ExtractDocumentIdLookupFirst(annotated, existing) ==
    LET doc_obj == Get(annotated, "document")
        embedded == IF IsDict(doc_obj) THEN Get(doc_obj, "id") ELSE PyNone
    IN [final_document_id |-> IF Truthy(existing) THEN existing ELSE embedded,
        result |-> annotated]

\* lines 320-333: [result, final_document_id] after the id extraction
ExtractDocumentId(annotated, existing) ==
    LET doc_obj == Get(annotated, "document")
        embedded == IF IsDict(doc_obj) THEN Get(doc_obj, "id") ELSE PyNone
    IN IF ~Truthy(embedded) /\ Truthy(existing)
       THEN [final_document_id |-> existing,
             result |-> IF ~HasKey(annotated, "document")
                        THEN SetKey(annotated, "document", JObj([id |-> existing]))
                        ELSE annotated]
       ELSE [final_document_id |-> embedded, result |-> annotated]

\* variant of ShouldAssign: the document id is not consulted
ShouldAssignWithoutId(metadata, document_id) == Truthy(metadata)
\* line 337
ShouldAssign(metadata, document_id) == Truthy(metadata) /\ Truthy(document_id)

\* variant of compose_summary: without the branch of lines 366-367
compose_summary_two_notes(name, op, res, final_id, meta_result, metadata) ==
    LET doc_info == GetDefault(res, "document", JObj(EmptyDict))
        batch == GetDefault(res, "batch", JStr(""))
        head == "Document '" \o PyStr(name) \o "' " \o op \o "d successfully."
        batch_part == IF Truthy(batch) THEN " Batch: " \o PyStr(batch) ELSE ""
        meta_part ==
            IF Truthy(meta_result)
            THEN IF Truthy(Get(meta_result, "success"))
                 THEN " Metadata assigned successfully."
                 ELSE " Metadata warning: " \o PyStr(Get(meta_result, "message"))
            ELSE ""
    IN IF GetFails(doc_info) THEN [exc |-> AttributeError, value |-> ""]
       ELSE [exc |-> NoExc,
             value |-> head \o " ID: "
                       \o PyStr(GetDefault(doc_info, "id", Or(final_id, JStr("N/A"))))
                       \o batch_part \o meta_part]
\* lines 350-369: [exc, value], value the summary text
compose_summary(name, op, res, final_id, meta_result, metadata) ==
    LET doc_info == GetDefault(res, "document", JObj(EmptyDict))
        batch == GetDefault(res, "batch", JStr(""))
        head == "Document '" \o PyStr(name) \o "' " \o op \o "d successfully."
        batch_part == IF Truthy(batch) THEN " Batch: " \o PyStr(batch) ELSE ""
        meta_part ==
            IF Truthy(meta_result)
            THEN IF Truthy(Get(meta_result, "success"))
                 THEN " Metadata assigned successfully."
                 ELSE " Metadata warning: " \o PyStr(Get(meta_result, "message"))
            ELSE IF Truthy(metadata)
            THEN " Warning: Metadata was provided but could not be assigned (no document ID)."
            ELSE ""
    IN IF GetFails(doc_info) THEN [exc |-> AttributeError, value |-> ""]
       ELSE [exc |-> NoExc,
             value |-> head \o " ID: "
                       \o PyStr(GetDefault(doc_info, "id", Or(final_id, JStr("N/A"))))
                       \o batch_part \o meta_part]

\* lines 229-234: the text for the first missing credential, "" when none is
CredentialMessage(key, base) ==
    IF ~Truthy(key) THEN "API key is required."
    ELSE IF ~Truthy(base) THEN "Base URL is required."
    ELSE ""

\* variant of RequiredMessage: text is checked before dataset_id and name
RequiredMessageTextFirst(dataset, name, content) ==
    IF ~Truthy(content) THEN "Text content is required."
    ELSE IF ~Truthy(dataset) THEN "Dataset ID is required."
    ELSE IF ~Truthy(name) THEN "Document name is required."
    ELSE ""

\* lines 241-250: the text for the first missing parameter, "" when none is
RequiredMessage(dataset, name, content) ==
    IF ~Truthy(dataset) THEN "Dataset ID is required."
    ELSE IF ~Truthy(name) THEN "Document name is required."
    ELSE IF ~Truthy(content) THEN "Text content is required."
    ELSE ""

\* variant of Annotate: line 318 is left out
AnnotateNothing(res, op) == res
\* lines 317-318: result = response.json(); result["operation"] = operation
Annotate(res, op) == SetKey(res, "operation", JStr(op))

(***************************************************************************)
(* The steps of _invoke.                                                   *)
(***************************************************************************)
\* lines 225-234
CheckCredentials ==
    LET BaseUrlInputs == {PyNone, Text(<<>>), Text(<<Chars("http://h/v1"), Slash>>)}
    IN
    LET ApiKeyInputs == {PyNone, JStr(""), JStr("key")}
    IN
    /\ pc = "start"
    /\ UNCHANGED others
    /\ \E k \in ApiKeyInputs, b \in BaseUrlInputs :
          /\ api_secret' = k
          /\ base_url_credential' = b
          /\ IF CredentialMessage(k, b) # ""
             THEN Fail(CredentialMessage(k, b))
             ELSE pc' = "params" /\ UNCHANGED <<messages, failed_at>>
    /\ UNCHANGED <<dataset_id, document_name, text, data, metadata_json, metadata_list,
                   existing_document_id, operation, url, response, result,
                   final_document_id, metadata_result, exc, requests, slept>>

\* lines 236-250
CheckRequiredParameters ==
    LET TextInputs == {Absent, JStr(""), JStr("hello")}
    IN
    LET NameInputs == {Absent, JStr(""), JStr("Report")}
    IN
    LET DatasetIdInputs == {Absent, JStr(""), JStr("D1")}
    IN
    /\ pc = "params"
    /\ UNCHANGED others
    /\ \E d \in DatasetIdInputs, n \in NameInputs, c \in TextInputs :
          /\ dataset_id' = ParamGetDefault(d, JStr(""))
          /\ document_name' = ParamGetDefault(n, JStr(""))
          /\ text' = ParamGetDefault(c, JStr(""))
          /\ IF RequiredMessage(dataset_id', document_name', text') # ""
             THEN Fail(RequiredMessage(dataset_id', document_name', text'))
             ELSE pc' = "build" /\ UNCHANGED <<messages, failed_at>>
    /\ UNCHANGED <<api_secret, base_url_credential, data, metadata_json, metadata_list,
                   existing_document_id, operation, url, response, result,
                   final_document_id, metadata_result, exc, requests, slept>>

\* lines 252-277
BuildData ==
    /\ pc = "build"
    /\ UNCHANGED others
    /\ \E it \in IndexingTechniqueInputs, df \in DocFormInputs, dl \in DocLanguageInputs :
          LET technique == resolve_indexing_technique(ParamGet(it))
          IN IF technique.exc # NoExc
             THEN Raise(technique.exc) /\ data' = data
             ELSE /\ data' = BuildDataOf(technique.value, ParamGet(df), ParamGet(dl))
                  /\ pc' = "load_rule"
                  /\ UNCHANGED <<exc, failed_at>>
    /\ UNCHANGED <<api_secret, base_url_credential, dataset_id, document_name, text,
                   metadata_json, metadata_list, existing_document_id, operation, url,
                   response, result, final_document_id, metadata_result, requests, slept,
                   messages>>

\* lines 279-288
LoadProcessRule ==
    /\ pc = "load_rule"
    /\ UNCHANGED others
    /\ \E raw \in ProcessRuleInputs :
          LET loaded == load_process_rule(ParamGet(raw))
          IN IF loaded.exc = NoExc
             THEN /\ data' = SetKey(data, "process_rule", loaded.value)
                  /\ pc' = "load_meta"
                  /\ UNCHANGED <<exc, failed_at, messages>>
             ELSE IF inner_except(loaded.exc, "process_rule") # Unset
             THEN /\ Fail(inner_except(loaded.exc, "process_rule").s)
                  /\ UNCHANGED <<data, exc>>
             ELSE Raise(loaded.exc) /\ UNCHANGED <<data, messages>>
    /\ UNCHANGED <<api_secret, base_url_credential, dataset_id, document_name, text,
                   metadata_json, metadata_list, existing_document_id, operation, url,
                   response, result, final_document_id, metadata_result, requests, slept>>

\* lines 290-299
LoadMetadata ==
    LET MetadataInputs ==
            LET MetadataItems ==
                    {JObj([id |-> JStr("m1"), name |-> JStr("Author"), value |-> JStr("Alice")]),
                     JObj([id |-> JStr("m2"), name |-> JStr("Year"), value |-> PyNone]),
                     JObj([id |-> JStr("m3"), name |-> JStr("Tag")]),
                     JStr("m4")}
            IN
            {Absent, JInt(5), Text(<<>>), Text(<<Ws>>), Text(<<Chars("[oops")>>),
             Text(<<JsonDoc(JObj(EmptyDict))>>)}
            \cup {Text(<<JsonDoc(JList(items))>>) : items \in SeqsUpTo(MetadataItems, MaxMeta)}
    IN
    /\ pc = "load_meta"
    /\ UNCHANGED others
    /\ \E raw \in MetadataInputs :
          LET loaded == load_metadata(ParamGet(raw))
          IN /\ metadata_json' = raw
             /\ IF loaded.exc = NoExc
                THEN /\ metadata_list' = loaded.value
                     /\ pc' = "find"
                     /\ UNCHANGED <<exc, failed_at, messages>>
                ELSE IF inner_except(loaded.exc, "metadata_json") # Unset
                THEN /\ Fail(inner_except(loaded.exc, "metadata_json").s)
                     /\ metadata_list' = PyNone
                     /\ exc' = exc
                ELSE Raise(loaded.exc) /\ metadata_list' = PyNone /\ messages' = messages
    /\ UNCHANGED <<api_secret, base_url_credential, dataset_id, document_name, text, data,
                   existing_document_id, operation, url, response, result,
                   final_document_id, metadata_result, requests, slept>>

\* lines 302, 129-130: the listing request goes out
FindRequest ==
    /\ pc = "find"
    /\ UNCHANGED others
    /\ requests' = Append(requests, FindRequestOf(document_name))
    /\ pc' = "find_wait"
    /\ UNCHANGED <<locals, exc, failed_at, slept, messages>>

\* lines 130-150 and 302-311: the listing call returns or fails
FindResponse ==
    /\ pc = "find_wait"
    /\ UNCHANGED others
    /\ \E outcome \in LookupOutcomes :
          LET found == find_document_id_by_name(outcome, document_name)
          IN IF found.exc # NoExc
             THEN Raise(found.exc) /\ UNCHANGED <<existing_document_id, operation, url>>
             ELSE /\ existing_document_id' = found.value
                  /\ operation' = OperationOf(found.value)
                  /\ url' = UrlOf(found.value)
                  /\ pc' = "write"
                  /\ UNCHANGED <<exc, failed_at>>
    /\ UNCHANGED <<api_secret, base_url_credential, dataset_id, document_name, text, data,
                   metadata_json, metadata_list, response, result, final_document_id,
                   metadata_result, requests, slept, messages>>

\* line 314: the write request goes out
WriteRequest ==
    /\ pc = "write"
    /\ UNCHANGED others
    /\ requests' = Append(requests, WriteRequestOf(url, data))
    /\ pc' = "write_wait"
    /\ UNCHANGED <<locals, exc, failed_at, slept, messages>>

\* lines 314-333: the write call returns or fails
WriteResponse ==
    /\ pc = "write_wait"
    /\ UNCHANGED others
    /\ \E outcome \in WriteOutcomes :
          IF outcome.t = "exc"
          THEN Raise(outcome) /\ UNCHANGED <<response, result, final_document_id>>
          ELSE /\ response' = outcome
               /\ LET failed == raise_for_status(outcome, "Failed to " \o operation \o " document")
                      parsed == ResponseJson(outcome)
                      extracted == ExtractDocumentId(Annotate(parsed.value, operation),
                                                     existing_document_id)
                  IN IF failed # NoExc
                     THEN Raise(failed) /\ UNCHANGED <<result, final_document_id>>
                     ELSE IF parsed.exc # NoExc
                     THEN Raise(parsed.exc) /\ UNCHANGED <<result, final_document_id>>
                     \* line 318: item assignment on a value that is not a dict
                     ELSE IF ~IsDict(parsed.value)
                     THEN /\ Raise(TypeError)
                          /\ result' = parsed.value
                          /\ final_document_id' = final_document_id
                     ELSE /\ result' = extracted.result
                          /\ final_document_id' = extracted.final_document_id
                          /\ pc' = "assign_check"
                          /\ UNCHANGED <<exc, failed_at>>
    /\ UNCHANGED <<api_secret, base_url_credential, dataset_id, document_name, text, data,
                   metadata_json, metadata_list, existing_document_id, operation, url,
                   metadata_result, requests, slept, messages>>

\* lines 335-337
AssignCheck ==
    /\ pc = "assign_check"
    /\ UNCHANGED others
    /\ metadata_result' = PyNone
    /\ pc' = IF ShouldAssign(metadata_list, final_document_id) THEN "sleep" ELSE "compose"
    /\ UNCHANGED <<api_secret, base_url_credential, dataset_id, document_name, text, data,
                   metadata_json, metadata_list, existing_document_id, operation, url,
                   response, result, final_document_id, exc, failed_at, requests, slept,
                   messages>>

\* line 339
Sleep ==
    /\ pc = "sleep"
    /\ UNCHANGED others
    /\ slept' = slept + 1
    /\ pc' = "assign"
    /\ UNCHANGED <<locals, exc, failed_at, requests, messages>>

\* lines 341-347, 161-172: the metadata request goes out
AssignRequest ==
    /\ pc = "assign"
    /\ UNCHANGED others
    /\ requests' = Append(requests, AssignRequestOf(final_document_id, metadata_list))
    /\ pc' = "assign_wait"
    /\ UNCHANGED <<locals, exc, failed_at, slept, messages>>

\* lines 172-194 and 341-348: the metadata call returns or fails
AssignResponse ==
    /\ pc = "assign_wait"
    /\ UNCHANGED others
    /\ \E outcome \in AssignOutcomes :
          /\ metadata_result' = assign_metadata(outcome)
          /\ result' = SetKey(result, "metadata_assignment", metadata_result')
    /\ pc' = "compose"
    /\ UNCHANGED <<api_secret, base_url_credential, dataset_id, document_name, text, data,
                   metadata_json, metadata_list, existing_document_id, operation, url,
                   response, final_document_id, exc, failed_at, requests, slept, messages>>

\* lines 350-369
ComposeSummary ==
    /\ pc = "compose"
    /\ UNCHANGED others
    /\ LET summary == compose_summary(document_name, operation, result, final_document_id,
                                      metadata_result, metadata_list)
       IN IF summary.exc # NoExc
          THEN Raise(summary.exc) /\ messages' = messages
          ELSE /\ messages' = Append(messages, TextMessage(summary.value))
               /\ pc' = "yield_json"
               /\ UNCHANGED <<exc, failed_at>>
    /\ UNCHANGED <<locals, requests, slept>>

\* line 370
YieldJson ==
    /\ pc = "yield_json"
    /\ UNCHANGED others
    /\ messages' = Append(messages, JsonMessage(result))
    /\ pc' = "done"
    /\ UNCHANGED <<locals, exc, failed_at, requests, slept>>

\* lines 372-380
HandleException ==
    /\ pc = "except"
    /\ UNCHANGED others
    /\ IF invoke_except(exc) # Unset
       THEN YieldTextAndReturn(invoke_except(exc).s)
       ELSE pc' = "raised" /\ messages' = messages
    /\ UNCHANGED <<locals, exc, failed_at, requests, slept>>

Next ==
    \/ CheckCredentials
    \/ CheckRequiredParameters
    \/ BuildData
    \/ LoadProcessRule
    \/ LoadMetadata
    \/ FindRequest
    \/ FindResponse
    \/ WriteRequest
    \/ WriteResponse
    \/ AssignCheck
    \/ Sleep
    \/ AssignRequest
    \/ AssignResponse
    \/ ComposeSummary
    \/ YieldJson
    \/ HandleException

Spec == Init /\ [][Next]_vars

(***************************************************************************)
(* Vocabulary of the properties: what an observer of one invocation sees   *)
(* (the requests sent, the messages yielded, the write call's response).   *)
(***************************************************************************)
Terminated == pc \in {"done", "raised"}
Succeeded == pc = "done" /\ failed_at = ""
EndsWith(u, tail) ==
    Len(u) >= Len(tail) /\ SubSeq(u, Len(u) - Len(tail) + 1, Len(u)) = tail
IsFindRequest(r) == r.method = "GET" /\ EndsWith(r.url, <<Slash, Chars("documents")>>)
IsCreateRequest(r) ==
    r.method = "POST"
        /\ EndsWith(r.url, <<Slash, Chars("document"), Slash, Chars("create-by-text")>>)
IsUpdateRequest(r) ==
    r.method = "POST" /\ EndsWith(r.url, <<Slash, Chars("update-by-text")>>)
IsUpdateOf(r, id) ==
    r.method = "POST"
        /\ EndsWith(r.url, <<Slash, Chars("documents"), Slash, Chars(id), Slash,
                             Chars("update-by-text")>>)
IsWriteRequest(r) == IsCreateRequest(r) \/ IsUpdateRequest(r)
IsAssignRequest(r) ==
    r.method = "POST"
        /\ EndsWith(r.url, <<Slash, Chars("documents"), Slash, Chars("metadata")>>)
RequestKind(r) ==
    IF IsFindRequest(r) THEN "lookup"
    ELSE IF IsWriteRequest(r) THEN "write"
    ELSE IF IsAssignRequest(r) THEN "assign"
    ELSE "other"
RequestKinds == [i \in 1..Len(requests) |-> RequestKind(requests[i])]
WriteRequests == SelectSeq(requests, IsWriteRequest)
AssignRequests == SelectSeq(requests, IsAssignRequest)
IsPrefix(a, b) == Len(a) <= Len(b) /\ SubSeq(b, 1, Len(a)) = a
OnlyText == \A i \in 1..Len(messages) : messages[i].type = "text"
OneText == Len(messages) = 1 /\ messages[1].type = "text"
TextThenJson ==
    Len(messages) = 2 /\ messages[1].type = "text" /\ messages[2].type = "json"

\* the write call returned, with a status in 2xx / outside 2xx
WriteReturned2xx == response # Unset /\ response.status \in 200..299
WriteReturnedError == response # Unset /\ response.status \notin 200..299
\* the id in the write response's nested document object (None when there is none)
EmbeddedId ==
    LET body == response.body.json
    IN IF body.t = "obj" /\ "document" \in DOMAIN body.f /\ body.f["document"].t = "obj"
          /\ "id" \in DOMAIN body.f["document"].f
       THEN body.f["document"].f["id"] ELSE PyNone
\* the id the policy of section 4.5 yields: the embedded one, else the lookup's
PolicyId ==
    IF Truthy(EmbeddedId) THEN EmbeddedId
    ELSE IF Truthy(existing_document_id) THEN existing_document_id
    ELSE PyNone
\* the write step ran to its end: result and final_document_id are set
WriteStepDone == final_document_id # Unset

(***************************************************************************)
(* C1                                                                      *)
(***************************************************************************)
\* C1 as stated: after a successful lookup exactly one write is issued; when the
\* lookup returned id X it is update-by-text against X, the result's operation is
\* "update" and the final document id is X; when it returned not-found it is
\* create-by-text and the result's operation is "create".
C1_Original ==
    /\ Len(WriteRequests) <= 1
    /\ (Terminated /\ existing_document_id # Unset) =>
          /\ Len(WriteRequests) = 1
          /\ IF Truthy(existing_document_id)
             THEN /\ IsUpdateOf(WriteRequests[1], existing_document_id.s)
                  /\ WriteStepDone =>
                        /\ Get(result, "operation") = JStr("update")
                        /\ final_document_id = existing_document_id
             ELSE /\ IsCreateRequest(WriteRequests[1])
                  /\ WriteStepDone => Get(result, "operation") = JStr("create")

\* C1 as amended: the same, except that the final document id of an update is the
\* non-empty id embedded in the write response's document object when there is
\* one, and X otherwise.
C1_Amended ==
    /\ Len(WriteRequests) <= 1
    /\ (Terminated /\ existing_document_id # Unset) =>
          /\ Len(WriteRequests) = 1
          /\ IF Truthy(existing_document_id)
             THEN /\ IsUpdateOf(WriteRequests[1], existing_document_id.s)
                  /\ WriteStepDone =>
                        /\ Get(result, "operation") = JStr("update")
                        /\ final_document_id =
                               IF Truthy(EmbeddedId) THEN EmbeddedId
                               ELSE existing_document_id
             ELSE /\ IsCreateRequest(WriteRequests[1])
                  /\ WriteStepDone => Get(result, "operation") = JStr("create")

\* C1 witness: an update of d1 succeeded whose response embeds another id
C1_Witness ==
    /\ Succeeded
    /\ existing_document_id = JStr("d1")
    /\ IsUpdateOf(WriteRequests[1], "d1")
    /\ final_document_id = JStr("d9")

(***************************************************************************)
(* C2                                                                      *)
(***************************************************************************)
C2_State ==
    /\ IsPrefix(RequestKinds, <<"lookup", "write", "assign">>)
    /\ (WriteRequests # <<>> => existing_document_id # Unset)
    /\ (AssignRequests # <<>> => WriteReturned2xx)

C2_Step ==
    /\ IsPrefix(requests, requests') /\ Len(requests') <= Len(requests) + 1
    /\ (Len(requests') > Len(requests) /\ IsWriteRequest(requests'[Len(requests')]))
           => existing_document_id # Unset
    /\ (Len(requests') > Len(requests) /\ IsAssignRequest(requests'[Len(requests')]))
           => WriteReturned2xx
    /\ failed_at # "" => requests' = requests

\* C2: the outbound calls are lookup, write, assignment in this order, each at most
\* once; the write goes out only after the lookup returned, the assignment only
\* after the write returned 2xx, and no call follows a failure.
C2_Order == [](C2_State) /\ [][C2_Step]_vars

\* C2 witness: an invocation that issued all three calls
C2_Witness == Terminated /\ RequestKinds = <<"lookup", "write", "assign">>

(***************************************************************************)
(* C3                                                                      *)
(***************************************************************************)
AssignmentFailed ==
    /\ AssignRequests # <<>>
    /\ metadata_result.t = "obj"
    /\ Get(metadata_result, "success") = JBool(FALSE)

\* C3: when the metadata call fails after a successful write, the invocation still
\* yields the summary text followed by the JSON payload, and the payload carries
\* metadata_assignment = {success: false, message}.
C3_AssignFailureKeepsSuccess ==
    (Terminated /\ AssignmentFailed) =>
        /\ TextThenJson
        /\ Get(messages[2].json, "metadata_assignment").t = "obj"
        /\ Get(Get(messages[2].json, "metadata_assignment"), "success") = JBool(FALSE)
        /\ HasKey(Get(messages[2].json, "metadata_assignment"), "message")

(***************************************************************************)
(* C4                                                                      *)
(***************************************************************************)
\* C4: a failure other than a metadata-assignment failure yields exactly one text
\* message and no JSON message, and no exception leaves _invoke.
C4_FailureOneText ==
    /\ pc # "raised"
    /\ failed_at # "" => OnlyText
    /\ (Terminated /\ failed_at # "") => OneText

\* C4 witness: the write call failed to connect and the invocation has ended
C4_Witness == pc = "done" /\ failed_at = "write_wait" /\ exc = ConnectError

(***************************************************************************)
(* C5                                                                      *)
(***************************************************************************)
\* C5: a successful invocation yields exactly two messages, the summary text and
\* then the JSON payload, which is the write response annotated with the operation
\* (and with the assignment result exactly when an assignment was attempted); a JSON
\* message is never yielded first or alone.
C5_TextThenJson ==
    /\ \A i \in 1..Len(messages) :
          messages[i].type = "json" => (i = 2 /\ messages[1].type = "text")
    /\ Succeeded =>
          /\ TextThenJson
          /\ LET payload == messages[2].json
                 written == response.body.json
             IN /\ IsDict(payload)
                /\ \A k \in DOMAIN written.f \ {"operation"} : Get(payload, k) = written.f[k]
                /\ Get(payload, "operation")
                       = JStr(IF IsCreateRequest(WriteRequests[1]) THEN "create" ELSE "update")
                /\ HasKey(payload, "metadata_assignment") <=> AssignRequests # <<>>
                /\ HasKey(payload, "metadata_assignment")
                       => Get(payload, "metadata_assignment") = metadata_result

\* C5 witness: a successful invocation whose payload carries an assignment result
C5_Witness == Succeeded /\ TextThenJson /\ HasKey(messages[2].json, "metadata_assignment")

(***************************************************************************)
(* C6                                                                      *)
(***************************************************************************)
\* the message field of the write call's error body, "" when it has none
RemoteMessage ==
    LET body == response.body.json
    IN IF body.t = "obj" /\ "message" \in DOMAIN body.f /\ body.f["message"].t = "str"
       THEN body.f["message"].s ELSE ""

\* C6: when the write call returns a status outside 2xx the invocation ends with a
\* single text message, which carries the remote's message, and no metadata call
\* is made.
C6_WriteFailure ==
    /\ WriteReturnedError => AssignRequests = <<>>
    /\ (Terminated /\ WriteReturnedError) =>
          /\ pc = "done"
          /\ OneText
          /\ RemoteMessage # "" =>
                messages[1].text \in {"Failed to create document: " \o RemoteMessage,
                                      "Failed to update document: " \o RemoteMessage}

\* C6 witness: scenario 4 with a valid metadata list supplied
C6_Witness ==
    /\ pc = "done"
    /\ WriteReturnedError
    /\ IsCreateRequest(WriteRequests[1])
    /\ response.status = 500
    /\ RemoteMessage = "quota exceeded"
    /\ Truthy(metadata_list)

(***************************************************************************)
(* C7                                                                      *)
(***************************************************************************)
ValidationSteps == {"build", "load_rule", "load_meta"}
WellFormedMetadataItem(item) ==
    /\ item.t = "obj"
    /\ Truthy(Get(item, "id"))
    /\ Truthy(Get(item, "name"))
    /\ HasKey(item, "value")
\* what the three validations let through
AcceptedInputs ==
    /\ data # Unset
    /\ HasKey(data, "indexing_technique")
    /\ Get(data, "indexing_technique").t \in {"str", "text"}
    /\ Truthy(Get(data, "indexing_technique"))
    /\ HasKey(data, "process_rule")
    /\ LET rule == Get(data, "process_rule")
       IN /\ rule.t = "obj"
          /\ Get(rule, "mode") \in {JStr("automatic"), JStr("custom"), JStr("hierarchical")}
          /\ Get(rule, "mode") # JStr("automatic") =>
                /\ Get(rule, "rules").t = "obj"
                /\ HasKey(Get(rule, "rules"), "pre_processing_rules")
                /\ HasKey(Get(rule, "rules"), "segmentation")
    /\ metadata_list # Unset
    /\ \/ metadata_list = PyNone
       \/ /\ metadata_list.t = "list"
          /\ \A i \in 1..Len(metadata_list.items) :
                WellFormedMetadataItem(metadata_list.items[i])

\* C7: the three validations all complete before the lookup; a rejection by any of
\* them ends the invocation with a failure text and no outbound call at all.
C7_ValidateBeforeLookup ==
    /\ pc \in ValidationSteps => requests = <<>>
    /\ requests # <<>> => AcceptedInputs
    /\ failed_at \in ValidationSteps =>
          /\ requests = <<>>
          /\ Terminated => (pc = "done" /\ OneText)

\* C7 witness: metadata_json was rejected after the other two inputs were accepted
C7_Witness ==
    /\ pc = "done"
    /\ failed_at = "load_meta"
    /\ HasKey(data, "process_rule")
    /\ requests = <<>>

(***************************************************************************)
(* C8                                                                      *)
(***************************************************************************)
MissingParameter ==
    \/ ~Truthy(api_secret)
    \/ ~Truthy(base_url_credential)
    \/ ~Truthy(dataset_id)
    \/ ~Truthy(document_name)
    \/ ~Truthy(text)
FirstMissingText ==
    IF ~Truthy(api_secret) THEN "API key is required."
    ELSE IF ~Truthy(base_url_credential) THEN "Base URL is required."
    ELSE IF ~Truthy(dataset_id) THEN "Dataset ID is required."
    ELSE IF ~Truthy(document_name) THEN "Document name is required."
    ELSE "Text content is required."

\* C8: the missing-parameter checks run first: with api_key, base_url, dataset_id,
\* name or text absent or empty the invocation yields exactly the text for the first
\* missing one in that order, raises nothing, validates no other input and issues
\* no call.
C8_MissingParameterFirst ==
    /\ (data # Unset \/ metadata_json # Unset \/ requests # <<>> \/ exc # NoExc)
           => ~MissingParameter
    /\ (Terminated /\ MissingParameter) =>
          /\ pc = "done"
          /\ messages = <<TextMessage(FirstMissingText)>>
          /\ exc = NoExc
          /\ data = Unset /\ metadata_json = Unset /\ metadata_list = Unset
          /\ requests = <<>>

\* C8 witness: dataset_id and text are both missing; the text names dataset_id
C8_Witness ==
    /\ pc = "done"
    /\ Truthy(api_secret) /\ Truthy(base_url_credential)
    /\ dataset_id = JStr("") /\ document_name = JStr("Report") /\ text = JStr("")
    /\ messages = <<TextMessage("Dataset ID is required.")>>

(***************************************************************************)
(* C9                                                                      *)
(***************************************************************************)
IsJsonDoc(tok) == tok.t = "jsondoc"
\* the items of the array metadata_json holds, <<>> when it holds none
MetadataGiven ==
    IF metadata_json.t # "text" THEN <<>>
    ELSE LET docs == SelectSeq(metadata_json.toks, IsJsonDoc)
         IN IF Len(docs) = 1 /\ docs[1].v.t = "list" THEN docs[1].v.items ELSE <<>>
\* the write returned 2xx with the JSON object the workflow takes as its result
WriteSucceeded == WriteReturned2xx /\ response.body.json.t = "obj"

\* C9: the metadata call is issued if and only if the write succeeded, the loaded
\* metadata list is non-empty and a document id is known from the write response or
\* the lookup; it is issued once, after the one pause, with the loaded list unchanged
\* and against that id; absent, empty and "[]" metadata_json never cause it.
C9_AssignIff ==
    /\ Len(AssignRequests) <= 1
    /\ slept <= 1
    /\ AssignRequests # <<>> =>
          /\ slept = 1
          /\ WriteSucceeded /\ MetadataGiven # <<>> /\ Truthy(PolicyId)
          /\ AssignRequests[1].json
                 = JObj([operation_data |->
                             JList(<<JObj([document_id |-> PolicyId,
                                           metadata_list |-> JList(MetadataGiven)])>>)])
    /\ (Terminated /\ WriteSucceeded /\ MetadataGiven # <<>> /\ Truthy(PolicyId))
           => AssignRequests # <<>>
    /\ metadata_json \in {Absent, Text(<<>>), Text(<<Ws>>), Text(<<JsonDoc(JList(<<>>))>>)}
           => AssignRequests = <<>>

\* C9 witness: scenario 3, a create followed by one metadata call against the new id
C9_Witness ==
    /\ Succeeded
    /\ IsCreateRequest(WriteRequests[1])
    /\ Len(AssignRequests) = 1
    /\ Get(AssignRequests[1].json, "operation_data").items[1].f["document_id"] = JStr("d9")
    /\ metadata_json
           = Text(<<JsonDoc(JList(<<JObj([id |-> JStr("m1"), name |-> JStr("Author"),
                                          value |-> JStr("Alice")])>>))>>)

(***************************************************************************)
(* C10                                                                     *)
(***************************************************************************)
\* C10: after a successful write the final document id is the id embedded in the
\* response's document object when it has one, otherwise the lookup's id, and it is
\* unknown only when both are missing.
C10_IdExtraction ==
    WriteStepDone =>
        /\ Truthy(EmbeddedId) => final_document_id = EmbeddedId
        /\ (~Truthy(EmbeddedId) /\ Truthy(existing_document_id))
               => final_document_id = existing_document_id
        /\ ~Truthy(final_document_id)
               <=> (~Truthy(EmbeddedId) /\ ~Truthy(existing_document_id))

\* C10 witness: the update response has a document object without an id, and the
\* lookup's id is taken
C10_Witness ==
    /\ pc = "assign_check"
    /\ Get(response.body.json, "document") = JObj(EmptyDict)
    /\ existing_document_id = JStr("d2")
    /\ final_document_id = JStr("d2")

(***************************************************************************)
(* The helper methods called on their own: the initial state holds the     *)
(* method's name and its arguments, the one step applies it.               *)
(***************************************************************************)
\* no invocation of _invoke is under way
NothingInvoked ==
    /\ api_secret = Unset /\ base_url_credential = Unset /\ dataset_id = Unset
    /\ document_name = Unset /\ text = Unset /\ data = Unset /\ metadata_json = Unset
    /\ metadata_list = Unset /\ existing_document_id = Unset /\ operation = Unset
    /\ url = Unset /\ response = Unset /\ result = Unset /\ final_document_id = Unset
    /\ metadata_result = Unset /\ exc = NoExc /\ failed_at = ""
    /\ requests = <<>> /\ slept = 0 /\ messages = <<>>

\* the steps below leave everything but ret and pc alone
Returns(value) ==
    /\ ret' = value
    /\ pc' = "returned"
    /\ UNCHANGED <<locals, exc, failed_at, requests, slept, messages, credentials, fn, args, remote>>

\* _find_document_id_by_name(base_url, headers, document_name), given the outcome
\* of its listing call
CallFindDocumentIdByName ==
    /\ pc = "call"
    /\ fn = "_find_document_id_by_name"
    /\ Returns(find_document_id_by_name(args[1], args[2]))

\* a JSON object's member: nothing when the value is absent
Field(key, value) == IF value = Absent THEN EmptyDict ELSE key :> value

RuleOk == JObj([id |-> JStr("remove_extra_spaces"), enabled |-> JBool(TRUE)])
RuleOff == JObj([id |-> JStr("remove_urls_emails"), enabled |-> JBool(FALSE)])
SegmentationValues ==
    LET MaxTokensValues == {Absent, PyNone, JInt(500), JStr("500"), JBool(TRUE)}
    IN
    LET SeparatorValues == {Absent, PyNone, JStr("\n"), JStr(""), JInt(5)}
    IN
    {Absent, PyNone}
    \cup {JObj(Field("separator", sep) @@ Field("max_tokens", mt)) :
              sep \in SeparatorValues, mt \in MaxTokensValues}
ParentModeValues == {Absent, JStr("full-doc"), JStr("paragraph")}
ProcessRuleObjects ==
    LET ModeValues ==
            {Absent, PyNone, JStr("automatic"), JStr("custom"), JStr("hierarchical"),
             JStr("Automatic"), JStr("bogus"), JInt(1)}
    IN
    LET RulesValues ==
            LET PreProcessingValues ==
                    {Absent, PyNone,
                     JList(<<>>),
                     JList(<<RuleOk>>),
                     JList(<<RuleOk, RuleOff>>),
                     JList(<<JObj([enabled |-> JBool(TRUE)])>>),
                     JList(<<RuleOk, JObj([id |-> JStr(""), enabled |-> JBool(TRUE)])>>),
                     JList(<<JObj([id |-> JStr("remove_extra_spaces")]), RuleOk>>),
                     JList(<<RuleOk, JObj([id |-> JStr("remove_extra_spaces"), enabled |-> JStr("true")])>>),
                     JList(<<JObj([id |-> JStr("remove_extra_spaces"), enabled |-> JInt(1)])>>)}
            IN
            {Absent, PyNone, JObj(EmptyDict), JStr(""), JStr("x"), JList(<<>>), JList(<<JInt(1)>>)}
            \cup {JObj(Field("pre_processing_rules", ppr) @@ Field("segmentation", seg)
                         @@ Field("parent_mode", pm)) :
                      ppr \in PreProcessingValues, seg \in SegmentationValues,
                      pm \in ParentModeValues}
    IN
    {JObj(Field("mode", m) @@ Field("rules", r)) : m \in ModeValues, r \in RulesValues}

\* _validate_segmentation_rules(segmentation, mode, parent_mode)
CallValidateSegmentationRules ==
    /\ pc = "call"
    /\ fn = "_validate_segmentation_rules"
    /\ Returns(validate_segmentation_rules(args[1], args[2], args[3]))

\* _validate_process_rule_structure(process_rule)
CallValidateProcessRuleStructure ==
    /\ pc = "call"
    /\ fn = "_validate_process_rule_structure"
    /\ Returns(validate_process_rule_structure(args[1]))

\* json.dumps(value): the text json.loads reads back as value
JsonDumps(value) == Text(<<JsonDoc(value)>>)

\* _load_process_rule(process_rule_raw)
CallLoadProcessRule ==
    /\ pc = "call"
    /\ fn = "_load_process_rule"
    /\ Returns(load_process_rule(args[1]))

\* _load_process_rule applied to its own output, re-encoded with json.dumps
CallLoadProcessRuleAgain ==
    /\ pc = "returned"
    /\ fn = "_load_process_rule"
    /\ ret.exc = NoExc
    /\ args' = <<JsonDumps(ret.value)>>
    /\ ret' = load_process_rule(JsonDumps(ret.value))
    /\ pc' = "returned again"
    /\ UNCHANGED <<locals, exc, failed_at, requests, slept, messages, credentials, fn, remote>>

\* _resolve_indexing_technique(indexing_technique)
CallResolveIndexingTechnique ==
    /\ pc = "call"
    /\ fn = "_resolve_indexing_technique"
    /\ Returns(resolve_indexing_technique(args[1]))

MetadataElements ==
    {JObj([id |-> JStr("m1"), name |-> JStr("Author"), value |-> JStr("Alice")]),
     JObj([id |-> JStr("m2"), name |-> JStr("Year"), value |-> PyNone]),
     JObj([id |-> JStr("m3"), name |-> JStr("Tag"), value |-> JStr("")]),
     JObj([id |-> JStr("m4"), name |-> JStr("Lang")]),
     JObj([id |-> JStr(""), name |-> JStr("Author"), value |-> JStr("Alice")]),
     JObj([name |-> JStr("Author"), value |-> JStr("Alice")]),
     JObj([id |-> JStr("m5"), name |-> JStr(""), value |-> JStr("Alice")]),
     JObj([id |-> JStr("m6"), value |-> JStr("Alice")]),
     JStr("m7"),
     JList(<<>>)}
\* longest metadata_json array given to _load_metadata on its own
MaxElements == 2
\* _load_metadata(metadata_raw)
CallLoadMetadata ==
    /\ pc = "call"
    /\ fn = "_load_metadata"
    /\ Returns(load_metadata(args[1]))

StatusBodies ==
    ErrorBodies
    \cup {Body(" ", NotJson),
          Body("null", PyNone),
          Body("\"oops\"", JStr("oops")),
          Body("{}", JObj(EmptyDict)),
          Body("{\"message\": \"\"}", JObj([message |-> JStr("")])),
          Body("{\"message\": null, \"detail\": \"not allowed\"}",
               JObj([message |-> PyNone, detail |-> JStr("not allowed")])),
          Body("{\"error\": \"denied\", \"detail\": \"not allowed\"}",
               JObj([error |-> JStr("denied"), detail |-> JStr("not allowed")])),
          Body("{\"message\": \"quota exceeded\", \"error\": \"denied\", \"detail\": \"d\"}",
               JObj([message |-> JStr("quota exceeded"), error |-> JStr("denied"),
                     detail |-> JStr("d")]))}
\* _raise_for_status(response, message)
CallRaiseForStatus ==
    /\ pc = "call"
    /\ fn = "_raise_for_status"
    /\ Returns(raise_for_status(args[1], args[2]))
\* _assign_metadata(base_url, headers, dataset_id, document_id, metadata_list), given
\* the outcome of its metadata call
CallAssignMetadata ==
    /\ pc = "call"
    /\ fn = "_assign_metadata"
    /\ Returns(assign_metadata(args[1]))
FunctionCalls ==
    LET AssignMetadataCalls ==
            {<<outcome>> :
                 outcome \in TransportErrors
                             \cup {Response(st, b) : st \in {200, 201, 204, 400, 500},
                                                     b \in StatusBodies}}
    IN
    LET RaiseForStatusCalls ==
            LET StatusValues == {199, 200, 204, 299, 300, 404, 500}
            IN
            {<<Response(st, b), m>> :
                 st \in StatusValues, b \in StatusBodies,
                 m \in {"Failed to query existing documents", "Failed to create document"}}
    IN
    LET LoadMetadataCalls ==
            {<<raw>> : raw \in {PyNone, JInt(5), JList(<<>>), Text(<<>>), Text(<<Ws>>),
                                Text(<<Chars("[oops")>>), Text(<<JsonDoc(JObj(EmptyDict))>>),
                                Text(<<JsonDoc(JStr("m1"))>>), Text(<<JsonDoc(PyNone)>>),
                                Text(<<JsonDoc(JInt(5))>>)}}
            \cup {<<Text(<<JsonDoc(JList(items))>>)>> : items \in SeqsUpTo(MetadataElements, MaxElements)}
            \cup {<<Text(<<Ws, JsonDoc(JList(items)), Ws>>)>> :
                      items \in SeqsUpTo(MetadataElements, MaxElements)}
    IN
    LET ResolveIndexingTechniqueCalls ==
            {<<v>> : v \in {PyNone, Text(<<>>), Text(<<Ws>>), Text(<<Ws, Ws>>),
                            Text(<<Chars("high_quality")>>), Text(<<Chars("economy")>>),
                            Text(<<Ws, Chars("economy"), Ws>>), Text(<<Chars("bogus"), Ws>>),
                            Text(<<Ws, Chars("high"), Ws, Chars("quality")>>),
                            JInt(0), JInt(5), JBool(TRUE), JList(<<>>), JList(<<JStr("economy")>>),
                            JObj(EmptyDict)}}
    IN
    LET LoadProcessRuleCalls ==
            {<<raw>> : raw \in {PyNone, JInt(5), JObj([mode |-> JStr("automatic")]), Text(<<>>),
                                Text(<<Ws>>), Text(<<Ws, Ws>>), Text(<<Chars("{oops")>>),
                                Text(<<JsonDoc(JList(<<>>))>>), Text(<<JsonDoc(JStr("automatic"))>>)}}
            \cup {<<Text(<<Ws, JsonDoc(rule), Ws>>)>> : rule \in ProcessRuleObjects}
            \cup {<<JsonDumps(rule)>> : rule \in ProcessRuleObjects}
    IN
    LET ValidateProcessRuleStructureCalls == {<<rule>> : rule \in ProcessRuleObjects}
    IN
    LET ValidateSegmentationRulesCalls ==
            {<<ParamGet(seg), m, ParamGet(pm)>> :
                 seg \in SegmentationValues, m \in {JStr("custom"), JStr("hierarchical")},
                 pm \in ParentModeValues}
    IN
    LET FindDocumentIdByNameCalls ==
            {<<outcome, name>> : outcome \in LookupOutcomes, name \in {JStr("Report")}}
    IN
    [fn : {"_find_document_id_by_name"}, args : FindDocumentIdByNameCalls]
    \cup [fn : {"_validate_segmentation_rules"}, args : ValidateSegmentationRulesCalls]
    \cup [fn : {"_validate_process_rule_structure"}, args : ValidateProcessRuleStructureCalls]
    \cup [fn : {"_load_process_rule"}, args : LoadProcessRuleCalls]
    \cup [fn : {"_resolve_indexing_technique"}, args : ResolveIndexingTechniqueCalls]
    \cup [fn : {"_load_metadata"}, args : LoadMetadataCalls]
    \cup [fn : {"_raise_for_status"}, args : RaiseForStatusCalls]
    \cup [fn : {"_assign_metadata"}, args : AssignMetadataCalls]

InitFunctions ==
    /\ pc = "call"
    /\ NothingInvoked
    /\ credentials = Unset
    /\ \E c \in FunctionCalls : fn = c.fn /\ args = c.args
    /\ ret = Unset
    /\ remote = Unset

NextFunctions ==
    \/ CallFindDocumentIdByName
    \/ CallValidateSegmentationRules
    \/ CallValidateProcessRuleStructure
    \/ CallLoadProcessRule
    \/ CallLoadProcessRuleAgain
    \/ CallResolveIndexingTechnique
    \/ CallLoadMetadata
    \/ CallRaiseForStatus
    \/ CallAssignMetadata

SpecFunctions == InitFunctions /\ [][NextFunctions]_vars

(***************************************************************************)
(* Vocabulary of the properties of the methods called on their own.        *)
(***************************************************************************)
Returned(name) == fn = name /\ pc = "returned"
\* the call returned normally / raised ValueError (an invalid-configuration error)
ReturnedValue == ret.exc = NoExc
RaisedValueError == ret.exc # NoExc /\ ret.exc.type = "ValueError"
Least(S) == CHOOSE i \in S : \A j \in S : i <= j

(***************************************************************************)
(* C11                                                                     *)
(***************************************************************************)
\* the listing call answered 2xx with a body that decodes
ListingDecoded(outcome) ==
    outcome.t = "response" /\ outcome.status \in 200..299 /\ outcome.body.json # NotJson
\* the entries of the payload's array field, <<>> when it has none
ListingOf(outcome) ==
    LET payload == outcome.body.json
    IN IF payload.t = "obj" /\ "data" \in DOMAIN payload.f /\ payload.f["data"].t = "list"
       THEN payload.f["data"].items ELSE <<>>
NameEquals(entry, name) ==
    entry.t = "obj" /\ "name" \in DOMAIN entry.f /\ entry.f["name"] = name
IdOf(entry) == IF "id" \in DOMAIN entry.f THEN entry.f["id"] ELSE PyNone

\* C11: _find_document_id_by_name returns the id of the first entry, in the order
\* received, whose name equals document_name exactly, and not-found when no entry
\* matches exactly or the payload has no array field, whatever the entries' ids are
\* (strings, empty strings, numbers, absent).
C11_FirstExactMatch ==
    (Returned("_find_document_id_by_name") /\ ListingDecoded(args[1])) =>
        LET entries == ListingOf(args[1])
            exact == {i \in 1..Len(entries) : NameEquals(entries[i], args[2])}
        IN /\ ReturnedValue
           /\ ret.value = IF exact = {} THEN PyNone ELSE IdOf(entries[Least(exact)])

(***************************************************************************)
(* C12                                                                     *)
(***************************************************************************)
\* the listing call answered with a status outside 2xx or a body that does not decode
LookupRefused(outcome) ==
    outcome.t = "response"
        /\ (outcome.status \notin 200..299 \/ outcome.body.json = NotJson)

\* C12: a listing call that returns a non-2xx status or an undecodable body makes the
\* resolver fail with an upstream error (never not-found); an invocation whose lookup
\* failed ends with a single failure text and issues no write and no metadata call.
C12_LookupFailure ==
    /\ pc = "find_wait" =>
          \A outcome \in LookupOutcomes :
              LookupRefused(outcome) =>
                  LET found == find_document_id_by_name(outcome, document_name)
                  IN found.exc # NoExc /\ found.exc.type = "RuntimeError"
    /\ failed_at = "find_wait" =>
          /\ existing_document_id = Unset
          /\ RequestKinds = <<"lookup">>
          /\ Terminated =>
                /\ pc = "done"
                /\ OneText
                /\ exc.type = "RuntimeError" => messages[1].text = exc.msg
    /\ Len(requests) > 1 => (failed_at # "find_wait" /\ existing_document_id # Unset)

\* C12 witness: the listing call answered 2xx with a body that is not JSON
C12_Witness ==
    /\ pc = "done"
    /\ failed_at = "find_wait"
    /\ exc = Exc("RuntimeError",
                 "Unexpected response while searching documents: Expecting value")
    /\ messages = <<TextMessage(exc.msg)>>
    /\ RequestKinds = <<"lookup">>

(***************************************************************************)
(* C13                                                                     *)
(***************************************************************************)
\* a member of a JSON object, Absent when the object has none of that name
Member(obj, key) == IF key \in DOMAIN obj.f THEN obj.f[key] ELSE Absent
KnownModes == {JStr("automatic"), JStr("custom"), JStr("hierarchical")}
\* a string of nothing but whitespace (the empty string included)
Blank(v) == v.t = "text" /\ \A i \in 1..Len(v.toks) : v.toks[i] = Ws

\* C13: a process-rule object with mode automatic is valid whatever its rules are; one
\* whose mode is absent or not automatic, custom or hierarchical is rejected with an
\* invalid-configuration error; an absent, empty or whitespace-only process_rule
\* input loads as {mode: automatic}.
C13_ModeDispatch ==
    /\ Returned("_validate_process_rule_structure") =>
          /\ Member(args[1], "mode") = JStr("automatic") => ret = NoExc
          /\ Member(args[1], "mode") \notin KnownModes
                 => (ret # NoExc /\ ret.type = "ValueError")
    /\ (Returned("_load_process_rule") /\ (args[1] = PyNone \/ Blank(args[1]))) =>
          ret = [exc |-> NoExc, value |-> JObj([mode |-> JStr("automatic")])]

\* C13 witness: mode automatic with rules that are not even an object
C13_Witness ==
    /\ Returned("_validate_process_rule_structure")
    /\ args[1] = JObj([mode |-> JStr("automatic"), rules |-> JStr("x")])
    /\ ret = NoExc

(***************************************************************************)
(* C14                                                                     *)
(***************************************************************************)
\* C14: with a well-formed separator, a missing max_tokens is accepted for mode
\* hierarchical with parent_mode "full-doc"; for hierarchical with any other or no
\* parent_mode and for custom with any parent_mode, validation fails when max_tokens
\* is absent, null or not an integer (a string, a boolean).
C14_MaxTokensRule ==
    (Returned("_validate_segmentation_rules") /\ args[1].t = "obj"
         /\ Member(args[1], "separator").t = "str") =>
        LET max_tokens == Member(args[1], "max_tokens")
            full_doc == args[2] = JStr("hierarchical") /\ args[3] = JStr("full-doc")
        IN /\ (full_doc /\ max_tokens = Absent) => ret = NoExc
           /\ (~full_doc /\ max_tokens.t # "int")
                  => (ret # NoExc /\ ret.type = "ValueError")

(***************************************************************************)
(* C15                                                                     *)
(***************************************************************************)
\* missing, null or empty
MissingOrEmpty(v) ==
    v \in {Absent, PyNone, JObj(EmptyDict), JList(<<>>), JStr("")}
MissingValue(v) == v \in {Absent, PyNone}
\* a pre-processing element without a non-empty id or without a strictly boolean enabled
BadPreProcessingRule(rule) ==
    \/ Member(rule, "id") \in {Absent, PyNone, JStr("")}
    \/ Member(rule, "enabled").t # "bool"
\* one of the defects the claim lists, in a rules value that is missing or an object
ListedDefect(rules) ==
    IF MissingOrEmpty(rules) THEN TRUE
    ELSE LET ppr == Member(rules, "pre_processing_rules")
             seg == Member(rules, "segmentation")
         IN \/ MissingValue(ppr)
            \/ \E i \in 1..Len(ppr.items) : BadPreProcessingRule(ppr.items[i])
            \/ MissingValue(seg)
            \/ MissingValue(Member(seg, "separator"))
            \/ Member(seg, "separator").t # "str"
\* the max_tokens rule of the spec: an integer, unless hierarchical with full-doc
MaxTokensRuleMet(mode, rules) ==
    \/ mode = JStr("hierarchical") /\ Member(rules, "parent_mode") = JStr("full-doc")
    \/ Member(Member(rules, "segmentation"), "max_tokens").t = "int"

DocsIn(v) == SelectSeq(v.toks, IsJsonDoc)
\* the structure a process_rule input denotes: the default when it is absent or blank
Denoted(raw) ==
    IF raw = PyNone \/ Blank(raw) THEN JObj([mode |-> JStr("automatic")])
    ELSE DocsIn(raw)[1].v

\* C16: on success _load_process_rule returns the structure its input denotes with no
\* field added, removed or changed; given its own output re-encoded it succeeds and
\* returns the identical structure; it yields no message and issues no request.
C16_Idempotent ==
    /\ (Returned("_load_process_rule") /\ ret.exc = NoExc) => ret.value = Denoted(args[1])
    /\ (fn = "_load_process_rule" /\ pc = "returned again") =>
          /\ ret.exc = NoExc
          /\ ret.value = DocsIn(args[1])[1].v
          /\ JsonDumps(ret.value) = args[1]
    /\ fn = "_load_process_rule" => (requests = <<>> /\ messages = <<>>)

\* C16 witness: a hierarchical rule with rules has been validated twice, unchanged
C16_Witness ==
    /\ fn = "_load_process_rule"
    /\ pc = "returned again"
    /\ ret.exc = NoExc
    /\ Get(ret.value, "mode") = JStr("hierarchical")
    /\ Get(Get(ret.value, "rules"), "parent_mode") = JStr("full-doc")
    /\ Get(Get(ret.value, "rules"), "pre_processing_rules") = JList(<<RuleOk, RuleOff>>)

(***************************************************************************)
(* C17                                                                     *)
(***************************************************************************)
Greatest(S) == CHOOSE i \in S : \A j \in S : i >= j
\* a string that is not blank, without its leading and trailing whitespace
Trimmed(v) ==
    LET inked == {i \in 1..Len(v.toks) : v.toks[i] # Ws}
    IN SubSeq(v.toks, Least(inked), Greatest(inked))

\* C17: _resolve_indexing_technique returns high_quality for absent, empty or
\* whitespace-only input, fails for any input that is not a string, and returns any
\* other string trimmed and otherwise verbatim, whatever technique it names.
C17_IndexingTechnique ==
    Returned("_resolve_indexing_technique") =>
        IF args[1] = PyNone \/ Blank(args[1])
        THEN ret = [exc |-> NoExc, value |-> JStr("high_quality")]
        ELSE IF args[1].t # "text"
        THEN ret.exc # NoExc /\ ret.exc.type = "ValueError"
        ELSE ret = [exc |-> NoExc, value |-> Text(Trimmed(args[1]))]

\* C17 witness: an unknown technique with trailing whitespace comes back trimmed
C17_Witness ==
    /\ Returned("_resolve_indexing_technique")
    /\ args[1] = Text(<<Chars("bogus"), Ws>>)
    /\ ret = [exc |-> NoExc, value |-> Text(<<Chars("bogus")>>)]

(***************************************************************************)
(* C18                                                                     *)
(***************************************************************************)
\* a non-blank text that is one JSON document
ValidJson(raw) == Len(Trimmed(raw)) = 1 /\ Trimmed(raw)[1].t = "jsondoc"
Rejected == ret.exc # NoExc /\ ret.exc.type \in {"ValueError", "JSONDecodeError"}
\* an element the loader must refuse
BadMetadataElement(item) ==
    \/ item.t # "obj"
    \/ Member(item, "id") \in {Absent, PyNone, JStr("")}
    \/ Member(item, "name") \in {Absent, PyNone, JStr("")}
    \/ "value" \notin DOMAIN item.f

\* C18: _load_metadata rejects non-empty input that is not valid JSON or not an array,
\* and an array with an element that is not an object, lacks a non-empty id or name,
\* or omits the value key; a value of null or "" is accepted; an accepted array is
\* returned with its elements and their order unchanged.
C18_LoadMetadata ==
    (Returned("_load_metadata") /\ args[1].t = "text" /\ ~Blank(args[1])) =>
        IF ~ValidJson(args[1]) THEN Rejected
        ELSE LET parsed == Trimmed(args[1])[1].v
             IN IF parsed.t # "list" THEN Rejected
                ELSE IF \E i \in 1..Len(parsed.items) : BadMetadataElement(parsed.items[i])
                THEN Rejected
                ELSE ret = [exc |-> NoExc, value |-> parsed]

\* C18 witness: two elements, one with value null and one with value "", come back
\* in the order given
C18_Witness ==
    /\ Returned("_load_metadata")
    /\ ret.exc = NoExc
    /\ ret.value
           = JList(<<JObj([id |-> JStr("m3"), name |-> JStr("Tag"), value |-> JStr("")]),
                     JObj([id |-> JStr("m2"), name |-> JStr("Year"), value |-> PyNone])>>)
    /\ args[1] = Text(<<Ws, JsonDoc(ret.value), Ws>>)

(***************************************************************************)
(* C19                                                                     *)
(***************************************************************************)
TimeoutText == "Request timed out. The document may still be processing."
\* the lookup or the write call exceeded its deadline
LookupOrWriteTimedOut ==
    failed_at \in {"find_wait", "write_wait"} /\ exc = TimeoutException
\* the metadata call exceeded its deadline
AssignTimedOut ==
    /\ AssignRequests # <<>>
    /\ metadata_result.t = "obj"
    /\ Get(metadata_result, "message") = JStr("Metadata assignment error: timed out")

\* C19 as stated: whichever outbound call exceeds its deadline (lookup, write or
\* metadata assignment), the invocation ends with the single timeout text.
C19_Original ==
    (Terminated /\ (LookupOrWriteTimedOut \/ AssignTimedOut)) =>
        messages = <<TextMessage(TimeoutText)>>

\* C19 as amended: a lookup or write call that exceeds its deadline ends the
\* invocation with the single timeout text; a metadata call that exceeds it does not:
\* _assign_metadata returns it as {success: false, message}, no timeout text is
\* yielded, and a response that is composed carries that result.
C19_Amended ==
    /\ (Terminated /\ exc = TimeoutException) =>
          /\ LookupOrWriteTimedOut
          /\ pc = "done"
          /\ messages = <<TextMessage(TimeoutText)>>
    /\ pc = "assign_wait" =>
          assign_metadata(TimeoutException)
              = JObj([success |-> JBool(FALSE),
                      message |-> JStr("Metadata assignment error: timed out")])
    /\ AssignTimedOut =>
          /\ exc # TimeoutException
          /\ \A i \in 1..Len(messages) :
                messages[i].type = "text" => messages[i].text # TimeoutText
          /\ Succeeded =>
                /\ TextThenJson
                /\ Get(messages[2].json, "metadata_assignment") = metadata_result
                /\ Get(metadata_result, "success") = JBool(FALSE)

\* C19 witness: the metadata call timed out and the invocation ended in its success
\* response
C19_Witness ==
    /\ Succeeded
    /\ AssignTimedOut
    /\ TextThenJson
    /\ Get(messages[2].json, "metadata_assignment") = metadata_result

(***************************************************************************)
(* The provider's credential check (src/provider/knowledge_pro.py):        *)
(* KnowledgeProProvider._validate_credentials as a state machine.  pc is   *)
(* the position in it, exc the exception raised inside its try block, ret  *)
(* what the method returns (None) or raises.                               *)
(***************************************************************************)
CredentialValidationError(msg) == Exc("ToolProviderCredentialValidationError", msg)
\* except requests.exceptions.ConnectionError: ConnectTimeout, ProxyError and SSLError
\* derive from it
IsRequestsConnectionError(e) ==
    e.type \in {"ConnectionError", "ConnectTimeout", "ProxyError", "SSLError"}
\* except requests.exceptions.Timeout: ConnectTimeout and ReadTimeout derive from it
IsRequestsTimeout(e) == e.type \in {"Timeout", "ConnectTimeout", "ReadTimeout"}

ProviderExceptions ==
    {Exc("ConnectionError", "Connection refused"),
     Exc("ConnectTimeout", "Connection to h timed out"),
     Exc("ReadTimeout", "Read timed out"),
     Exc("InvalidSchema", "No connection adapters were found")}
\* lines 12-18: the exception raised for a missing credential, NoExc when none is
missing_credential(creds) ==
    IF ~HasKey(creds, "api_key") \/ ~Truthy(Get(creds, "api_key"))
    THEN CredentialValidationError("Dify API key is required.")
    ELSE IF ~HasKey(creds, "base_url") \/ ~Truthy(Get(creds, "base_url"))
    THEN CredentialValidationError("Dify API base URL is required.")
    ELSE NoExc

\* lines 20-33: the request listing one dataset
ProviderRequestOf(creds) ==
    [method |-> "GET",
     url |-> RStripSlash(GetDefault(creds, "base_url", Text(<<>>)).toks)
                 \o <<Slash, Chars("datasets?page=1&limit=1")>>,
     headers |-> [Authorization |-> "Bearer " \o PyStr(Get(creds, "api_key")),
                  ContentType |-> "application/json"],
     params |-> PyNone, json |-> PyNone, timeout |-> 30]

\* lines 35-42: the exception raised for the response's status, NoExc for 200
status_error(resp) ==
    IF resp.status = 401
    THEN CredentialValidationError("Invalid API key. Please check your credentials.")
    ELSE IF resp.status = 403
    THEN CredentialValidationError("Access forbidden. Please check your API key permissions.")
    ELSE IF resp.status # 200
    THEN CredentialValidationError("Failed to validate credentials: "
                                       \o ToString(resp.status) \o " - " \o resp.body.text)
    ELSE NoExc

\* lines 44-55: the exception that leaves the method for one raised in the try block
provider_except(e) ==
    IF IsRequestsConnectionError(e)
    THEN CredentialValidationError("Failed to connect to Dify API. Please check your base URL.")
    ELSE IF IsRequestsTimeout(e)
    THEN CredentialValidationError("Connection to Dify API timed out. Please try again.")
    ELSE IF e.type = "ToolProviderCredentialValidationError" THEN e
    ELSE CredentialValidationError(e.msg)

InitProvider ==
    LET ProviderCredentials ==
            LET ProviderBaseUrls ==
                    {Absent, PyNone, Text(<<>>), Text(<<Chars("http://h/v1")>>),
                     Text(<<Chars("http://h/v1"), Slash>>)}
            IN
            LET ProviderApiKeys == {Absent, PyNone, JStr(""), JStr("key"), JStr("key2")}
            IN
            {JObj(Field("api_key", k) @@ Field("base_url", b)) :
                 k \in ProviderApiKeys, b \in ProviderBaseUrls}
    IN
    /\ pc = "validate"
    /\ NothingInvoked
    /\ credentials \in ProviderCredentials
    /\ fn = "_validate_credentials"
    /\ args = <<>>
    /\ ret = Unset
    /\ remote = Unset

ProviderUntouched ==
    UNCHANGED <<api_secret, base_url_credential, dataset_id, document_name, text, data,
                metadata_json, metadata_list, existing_document_id, operation, url,
                result, final_document_id, metadata_result, failed_at, slept, messages,
                credentials, fn, args, remote>>

\* lines 11-18
ProviderCheckCredentials ==
    /\ pc = "validate"
    /\ IF missing_credential(credentials) # NoExc
       THEN exc' = missing_credential(credentials) /\ pc' = "except"
       ELSE exc' = exc /\ pc' = "send"
    /\ UNCHANGED <<response, requests, ret>>
    /\ ProviderUntouched

\* lines 20-33: the request goes out
ProviderSend ==
    /\ pc = "send"
    /\ requests' = Append(requests, ProviderRequestOf(credentials))
    /\ pc' = "wait"
    /\ UNCHANGED <<response, exc, ret>>
    /\ ProviderUntouched

\* lines 29-42: the request returns or fails
ProviderReceive ==
    LET ProviderOutcomes ==
            LET ProviderBodies == {"", "{\"data\": []}", "Bad Gateway"}
            IN
            LET ProviderStatuses == {200, 201, 204, 400, 401, 403, 404, 500}
            IN
            ProviderExceptions
            \cup {Response(st, Body(b, NotJson)) : st \in ProviderStatuses, b \in ProviderBodies}
    IN
    /\ pc = "wait"
    /\ \E outcome \in ProviderOutcomes :
          IF outcome.t = "exc"
          THEN exc' = outcome /\ pc' = "except" /\ UNCHANGED <<response, ret>>
          ELSE /\ response' = outcome
               /\ IF status_error(outcome) # NoExc
                  THEN exc' = status_error(outcome) /\ pc' = "except" /\ ret' = ret
                  ELSE exc' = exc /\ pc' = "returned" /\ ret' = PyNone
    /\ UNCHANGED requests
    /\ ProviderUntouched

\* lines 44-55
ProviderExcept ==
    /\ pc = "except"
    /\ ret' = provider_except(exc)
    /\ pc' = "raised"
    /\ UNCHANGED <<response, requests, exc>>
    /\ ProviderUntouched

NextProvider ==
    \/ ProviderCheckCredentials
    \/ ProviderSend
    \/ ProviderReceive
    \/ ProviderExcept

SpecProvider == InitProvider /\ [][NextProvider]_vars

\* ---- C20 ----
ProviderEnded == pc \in {"returned", "raised"}
CredentialMissing(key) ==
    Member(credentials, key) \in {Absent, PyNone, JStr(""), Text(<<>>)}
RaisedCredentialError(msg) ==
    pc = "raised" /\ ret = CredentialValidationError(msg)
\* the request exceeded its deadline, while connecting or while reading
ProviderTimedOut == exc.t = "exc" /\ exc.type \in {"Timeout", "ConnectTimeout", "ReadTimeout"}
\* the connection could not be made for another reason than the deadline
ProviderConnectionFailed ==
    exc.t = "exc" /\ exc.type \in {"ConnectionError", "ProxyError", "SSLError"}
ProviderAnswered == response # Unset

\* C20: credential validation fails without any request when api_key or base_url is
\* absent or empty; otherwise it issues exactly one authenticated read and maps the
\* outcome: 401 to invalid key, 403 to forbidden, any other non-200 status to a generic
\* failure carrying status and body, a connection failure to a bad base URL, a timeout
\* to retry later, 200 to success; every failure is a credential-validation error.
C20_CredentialValidation ==
    ProviderEnded =>
        /\ pc = "raised" => ret.t = "exc" /\ ret.type = "ToolProviderCredentialValidationError"
        /\ IF CredentialMissing("api_key") \/ CredentialMissing("base_url")
           THEN requests = <<>> /\ pc = "raised"
           ELSE /\ Len(requests) = 1
                /\ requests[1].method = "GET"
                /\ requests[1].headers.Authorization
                       = "Bearer " \o Member(credentials, "api_key").s
                /\ ProviderAnswered /\ response.status = 401
                       => RaisedCredentialError("Invalid API key. Please check your credentials.")
                /\ ProviderAnswered /\ response.status = 403
                       => RaisedCredentialError("Access forbidden. Please check your API key permissions.")
                /\ ProviderAnswered /\ response.status \notin {200, 401, 403}
                       => RaisedCredentialError("Failed to validate credentials: "
                              \o ToString(response.status) \o " - " \o response.body.text)
                /\ ProviderAnswered /\ response.status = 200 => pc = "returned" /\ ret = PyNone
                /\ ProviderConnectionFailed
                       => RaisedCredentialError("Failed to connect to Dify API. Please check your base URL.")
                /\ ProviderTimedOut
                       => RaisedCredentialError("Connection to Dify API timed out. Please try again.")

\* ---- C21 ----
\* an optional input that is neither absent nor empty
Provided(v) == v \notin {Absent, PyNone, JStr("")}
RequiredKeys == {"text", "name", "indexing_technique", "process_rule"}
KeysFor(doc_form, doc_language) ==
    RequiredKeys \cup (IF Provided(doc_form) THEN {"doc_form"} ELSE {})
                 \cup (IF Provided(doc_language) THEN {"doc_language"} ELSE {})
\* the body built from the inputs it, df, dl and the process rule raw, when all are accepted
BodyFor(it, df, dl, raw) ==
    SetKey(BuildDataOf(resolve_indexing_technique(ParamGet(it)).value, ParamGet(df),
                       ParamGet(dl)),
           "process_rule", load_process_rule(ParamGet(raw)).value)
BodiesOfInputs ==
    {BodyFor(it, df, dl, raw) :
         it \in {i \in IndexingTechniqueInputs :
                     resolve_indexing_technique(ParamGet(i)).exc = NoExc},
         df \in DocFormInputs, dl \in DocLanguageInputs,
         raw \in {r \in ProcessRuleInputs : load_process_rule(ParamGet(r)).exc = NoExc}}

\* C21: the body of the write request is the same function of the inputs in the create and
\* in the update branch: it holds text, name, the resolved indexing_technique and the
\* validated process_rule, holds doc_form and doc_language exactly when that input is
\* neither absent nor empty, and holds no other key (in particular not the metadata list).
C21_WriteBody ==
    /\ \A it \in IndexingTechniqueInputs, df \in DocFormInputs, dl \in DocLanguageInputs,
          raw \in ProcessRuleInputs :
          (pc = "build" /\ resolve_indexing_technique(ParamGet(it)).exc = NoExc
                        /\ load_process_rule(ParamGet(raw)).exc = NoExc)
              => LET body == BodyFor(it, df, dl, raw)
                 IN /\ DOMAIN body.f = KeysFor(df, dl)
                    /\ body.f.text = text
                    /\ body.f.name = document_name
                    /\ body.f.indexing_technique
                           = resolve_indexing_technique(ParamGet(it)).value
                    /\ body.f.process_rule = load_process_rule(ParamGet(raw)).value
                    /\ validate_process_rule_structure(body.f.process_rule) = NoExc
                    /\ Provided(df) => body.f.doc_form = df
                    /\ Provided(dl) => body.f.doc_language = dl
    /\ \A i \in 1..Len(requests) :
          IsWriteRequest(requests[i])
              => /\ requests[i].json = data
                 /\ data \in BodiesOfInputs
                 /\ data.f.text = text /\ data.f.name = document_name
                 /\ DOMAIN data.f \subseteq RequiredKeys \cup {"doc_form", "doc_language"}
C21_Witness ==
    /\ WriteRequests # <<>>
    /\ IsUpdateRequest(WriteRequests[1])
    /\ DOMAIN data.f = RequiredKeys \cup {"doc_form"}
    /\ Truthy(metadata_list)

\* ---- C22 ----
\* the body decodes to an object that carries a non-empty field key
Carries(body, key) ==
    body.json.t = "obj" /\ key \in DOMAIN body.json.f /\ Truthy(body.json.f[key])
\* the detail in the precedence message, error, detail, raw body, bare status
DetailByPrecedence(resp) ==
    IF Carries(resp.body, "message") THEN PyStr(resp.body.json.f["message"])
    ELSE IF Carries(resp.body, "error") THEN PyStr(resp.body.json.f["error"])
    ELSE IF Carries(resp.body, "detail") THEN PyStr(resp.body.json.f["detail"])
    ELSE IF resp.body.text # "" THEN resp.body.text
    ELSE "HTTP " \o ToString(resp.status)

\* C22: _raise_for_status raises nothing on a 2xx response; on any other it raises an
\* upstream error whose detail is the body's message field, else its error field, else
\* its detail field, else the raw body (whether or not the body is valid JSON), else,
\* for an empty body only, the bare status code.
C22_DetailPrecedence ==
    Returned("_raise_for_status")
        => IF args[1].status \in 200..299 THEN ret = NoExc
           ELSE ret = Exc("RuntimeError", args[2] \o ": " \o DetailByPrecedence(args[1]))

\* ---- C23 ----
\* the summary text has been yielded
SummaryYielded == failed_at = "" /\ pc \in {"yield_json", "done"} /\ Len(messages) >= 1
\* the texts an id can be displayed as
IdTexts == {"d1", "d2", "d9", "N/A", "None", ""}
SuccessNote == " Metadata assigned successfully."
NoIdWarning == " Warning: Metadata was provided but could not be assigned (no document ID)."
FailureWarning(result_of_assigner) ==
    " Metadata warning: " \o result_of_assigner.f["message"].s
\* the batch of the write response, "" when it has none
BatchOf ==
    LET body == response.body.json
    IN IF body.t = "obj" /\ "batch" \in DOMAIN body.f /\ body.f["batch"].t = "str"
       THEN body.f["batch"].s ELSE ""
BatchLine == IF BatchOf # "" THEN " Batch: " \o BatchOf ELSE ""
\* the one note the outcome calls for, "" when no metadata was given
MetadataNote ==
    IF MetadataGiven = <<>> THEN ""
    ELSE IF AssignRequests = <<>> THEN NoIdWarning
    ELSE IF metadata_result.f["success"] = JBool(TRUE) THEN SuccessNote
    ELSE FailureWarning(metadata_result)

\* C23: in the success summary, when the loaded metadata list is non-empty exactly one of
\* the success note, the failure warning carrying the assigner's message and the
\* no-document-id warning appears, chosen by the outcome; when the list is absent or empty
\* none appears; the batch line appears exactly when the write response has a non-empty
\* batch.
C23_SummaryNotes ==
    SummaryYielded
        => \E id \in IdTexts :
              messages[1].text
                  = "Document '" \o document_name.s \o "' "
                        \o (IF IsCreateRequest(WriteRequests[1]) THEN "create" ELSE "update")
                        \o "d successfully. ID: " \o id \o BatchLine \o MetadataNote
C23_Witness ==
    /\ SummaryYielded
    /\ MetadataGiven # <<>>
    /\ AssignRequests = <<>>
    /\ BatchOf # ""
    /\ messages[1].text
           = "Document 'Report' created successfully. ID: N/A Batch: b1" \o NoIdWarning

\* ---- C24 ----
\* the entry's name equals name exactly and its id is a non-empty string
Usable(entry, name) ==
    NameEquals(entry, name) /\ IdOf(entry).t = "str" /\ IdOf(entry).s # ""
UsableEntries(outcome, name) ==
    {i \in 1..Len(ListingOf(outcome)) : Usable(ListingOf(outcome)[i], name)}
CreateUrl(u) == EndsWith(u, <<Slash, Chars("document"), Slash, Chars("create-by-text")>>)
UpdateUrl(u, id) ==
    EndsWith(u, <<Slash, Chars("documents"), Slash, Chars(id), Slash, Chars("update-by-text")>>)

\* C24: the id an update-by-text call and its URL target is a non-empty string taken from
\* a listing entry whose name equals the requested name exactly; a name-matching entry
\* whose id is missing, empty or not a string is skipped and the scan goes on with the
\* later entries; when no usable entry remains the workflow takes the create branch.
C24_UpdateTarget ==
    /\ pc = "find_wait" =>
          \A outcome \in LookupOutcomes :
              ListingDecoded(outcome) =>
                  LET found == find_document_id_by_name(outcome, document_name)
                      usable == UsableEntries(outcome, document_name)
                  IN /\ found.exc = NoExc
                     /\ IF usable = {}
                        THEN /\ found.value = PyNone
                             /\ OperationOf(found.value) = "create"
                             /\ CreateUrl(UrlOf(found.value))
                        ELSE /\ found.value = IdOf(ListingOf(outcome)[Least(usable)])
                             /\ OperationOf(found.value) = "update"
                             /\ UpdateUrl(UrlOf(found.value), found.value.s)
    /\ \A i \in 1..Len(requests) :
          /\ IsUpdateRequest(requests[i])
                => /\ existing_document_id.t = "str" /\ existing_document_id.s # ""
                   /\ UpdateUrl(requests[i].url, existing_document_id.s)
                   /\ requests[i].url = url /\ operation = "update"
          /\ IsCreateRequest(requests[i])
                => existing_document_id = PyNone /\ operation = "create"
\* C24 witness: the update targets d2, which only a listing whose first name-matching
\* entry is unusable, or which lists d2 first, can yield
C24_Witness ==
    /\ WriteRequests # <<>>
    /\ IsUpdateOf(WriteRequests[1], "d2")
    /\ \E outcome \in LookupOutcomes :
          /\ ListingDecoded(outcome)
          /\ Len(ListingOf(outcome)) = 2
          /\ NameEquals(ListingOf(outcome)[1], document_name)
          /\ UsableEntries(outcome, document_name) = {2}
          /\ find_document_id_by_name(outcome, document_name).value = existing_document_id

\* ---- C25 ----
\* the body decodes to an object that has the field key, whatever its value
HasField(body, key) == body.json.t = "obj" /\ key \in DOMAIN body.json.f
\* the detail: the body's message field, else its error field, else the raw body
DetailByField(resp) ==
    IF HasField(resp.body, "message") THEN PyStr(resp.body.json.f["message"])
    ELSE IF HasField(resp.body, "error") THEN PyStr(resp.body.json.f["error"])
    ELSE resp.body.text

\* C25: _assign_metadata reports {success: true} if and only if the metadata call's
\* response status is exactly 200; every other status, 201 and 204 included, is reported
\* as {success: false} with the HTTP status and a detail taken from the body's message
\* field, else its error field, else the raw body.
C25_AssignOutcome ==
    (Returned("_assign_metadata") /\ args[1].t = "response") =>
        /\ ret.t = "obj"
        /\ ret.f["success"] = JBool(TRUE) <=> args[1].status = 200
        /\ args[1].status # 200 =>
              ret = JObj([success |-> JBool(FALSE),
                          message |-> JStr("Metadata assignment failed (HTTP "
                                           \o ToString(args[1].status) \o "): "
                                           \o DetailByField(args[1]))])
C25_Witness ==
    /\ Returned("_assign_metadata")
    /\ args[1].t = "response"
    /\ args[1].status = 204
    /\ HasField(args[1].body, "error") /\ ~HasField(args[1].body, "message")
    /\ ret.f["success"] = JBool(FALSE)

\* ---- C26 ----
\* the write call returned a 2xx status with a body that is JSON
WriteReturnedJson == WriteReturned2xx /\ response.body.json # NotJson

\* C26: once the write call has returned a 2xx status with a JSON body, the invocation
\* ends in the success response, the summary text followed by the JSON payload, and never
\* in a failure text, whatever the body's shape: an object whose document field is an
\* object, null, another value or absent, or a body that is not an object.
C26_WriteSuccessEndsInSuccess ==
    (Terminated /\ WriteReturnedJson) => (failed_at = "" /\ TextThenJson)

(***************************************************************************)
(* Several invocations of _invoke against one remote dataset.  Every       *)
(* invocation has the same valid credentials and parameters and no         *)
(* metadata; pc, existing_document_id, operation, url, response, result    *)
(* and final_document_id hold one value per invocation.  The remote keeps  *)
(* the documents created and answers the listing request from them.        *)
(***************************************************************************)
\* invocations of one run
MaxRuns == 3
\* most documents of other names the dataset holds at the start
MaxOthers == 100

DocumentId(k) == JStr("doc" \o ToString(k))
StoredDocument(k, name) == JObj([id |-> DocumentId(k), name |-> name])

\* GET {dataset}/documents?keyword=&limit=&page=1: the first page of the documents whose
\* name contains the keyword, in the remote's order
RemoteListing(rem, params) ==
    LET Take(s, n) == SubSeq(s, 1, IF n < Len(s) THEN n ELSE Len(s))
    IN
    LET Reverse(s) == [i \in 1..Len(s) |-> s[Len(s) + 1 - i]]
    IN
    \* the remote's keyword filter: name contains keyword as a substring
    LET NameContains(name, keyword) ==
            \/ name = keyword
            \/ <<name.s, keyword.s>> \in {<<"Report 2", "Report">>, <<"Annual Report", "Report">>}
    IN
    LET Hit(d) == NameContains(Get(d, "name"), params.keyword)
        ordered == IF rem.newest_first THEN Reverse(rem.documents) ELSE rem.documents
    IN Response(200, Body("<listing>",
                          JObj([data |-> JList(Take(SelectSeq(ordered, Hit), params.limit))])))
\* POST {dataset}/document/create-by-text: a new document is stored
RemoteCreate(rem, name) ==
    [rem EXCEPT !.documents = Append(@, StoredDocument(Len(@) + 1, name))]
\* the answer to either write call
RemoteWritten(id) ==
    Response(200, Body("{document, batch}",
                       JObj([document |-> JObj([id |-> id]), batch |-> JStr("b1")])))

\* the state before any of the invocations in runs has issued a request
InitInvocations(runs, counts) ==
    LET InitialRemotes ==
            {[documents |-> [k \in 1..n |-> StoredDocument(k, name)], newest_first |-> first] :
                 n \in counts, name \in {JStr("Report 2"), JStr("Notes")}, first \in BOOLEAN}
    IN
    /\ pc = [i \in runs |-> "find"]
    /\ api_secret = JStr("key")
    /\ base_url_credential = Text(<<Chars("http://h/v1"), Slash>>)
    /\ dataset_id = JStr("D1")
    /\ document_name = JStr("Report")
    /\ text = JStr("hello")
    /\ data = SetKey(BuildDataOf(DEFAULT_INDEXING_TECHNIQUE, PyNone, PyNone),
                     "process_rule", DEFAULT_PROCESS_RULE)
    /\ metadata_json = Absent
    /\ metadata_list = PyNone
    /\ existing_document_id = [i \in runs |-> Unset]
    /\ operation = [i \in runs |-> Unset]
    /\ url = [i \in runs |-> Unset]
    /\ response = [i \in runs |-> Unset]
    /\ result = [i \in runs |-> Unset]
    /\ final_document_id = [i \in runs |-> Unset]
    /\ metadata_result = PyNone
    /\ exc = NoExc
    /\ failed_at = ""
    /\ requests = <<>>
    /\ slept = 0
    /\ messages = <<>>
    /\ credentials = Unset
    /\ fn = ""
    /\ args = <<>>
    /\ ret = Unset
    /\ remote \in InitialRemotes

\* another invocation is between its listing request and its end
Overlaps(i) == \E j \in DOMAIN pc \ {i} : pc[j] \notin {"find", "done"}

\* lines 302, 129-130: invocation i sends the listing request; when the invocations
\* are run one after the other it waits for the one under way to end
InvocationFindRequest(i, sequential) ==
    /\ pc[i] = "find"
    /\ sequential => ~Overlaps(i)
    /\ requests' = Append(requests, FindRequestOf(document_name))
    /\ pc' = [pc EXCEPT ![i] = "find_wait"]
    /\ UNCHANGED <<locals, exc, failed_at, slept, messages, others>>

\* lines 130-150 and 302-311: the remote answers the listing request of invocation i
InvocationFindResponse(i) ==
    /\ pc[i] = "find_wait"
    /\ LET outcome == RemoteListing(remote, FindRequestOf(document_name).params)
           found == find_document_id_by_name(outcome, document_name)
       IN /\ found.exc = NoExc
          /\ existing_document_id' = [existing_document_id EXCEPT ![i] = found.value]
          /\ operation' = [operation EXCEPT ![i] = OperationOf(found.value)]
          /\ url' = [url EXCEPT ![i] = UrlOf(found.value)]
    /\ pc' = [pc EXCEPT ![i] = "write"]
    /\ UNCHANGED <<api_secret, base_url_credential, dataset_id, document_name, text, data,
                   metadata_json, metadata_list, response, result, final_document_id,
                   metadata_result, exc, failed_at, requests, slept, messages, others>>

\* line 314: invocation i sends the write request
InvocationWriteRequest(i) ==
    /\ pc[i] = "write"
    /\ requests' = Append(requests, WriteRequestOf(url[i], data))
    /\ pc' = [pc EXCEPT ![i] = "write_wait"]
    /\ UNCHANGED <<locals, exc, failed_at, slept, messages, others>>

\* lines 314-370: the remote performs the write of invocation i and answers; the
\* invocation yields its summary and its payload
InvocationWriteResponse(i) ==
    /\ pc[i] = "write_wait"
    /\ LET stored == IF operation[i] = "create" THEN RemoteCreate(remote, document_name)
                     ELSE remote
           outcome == RemoteWritten(IF operation[i] = "create"
                                    THEN DocumentId(Len(stored.documents))
                                    ELSE existing_document_id[i])
           extracted == ExtractDocumentId(Annotate(ResponseJson(outcome).value, operation[i]),
                                          existing_document_id[i])
           summary == compose_summary(document_name, operation[i], extracted.result,
                                      extracted.final_document_id, metadata_result,
                                      metadata_list)
       IN /\ raise_for_status(outcome, "Failed to " \o operation[i] \o " document") = NoExc
          /\ ~ShouldAssign(metadata_list, extracted.final_document_id)
          /\ summary.exc = NoExc
          /\ remote' = stored
          /\ response' = [response EXCEPT ![i] = outcome]
          /\ result' = [result EXCEPT ![i] = extracted.result]
          /\ final_document_id' = [final_document_id EXCEPT ![i] = extracted.final_document_id]
          /\ messages' = messages \o <<TextMessage(summary.value),
                                       JsonMessage(extracted.result)>>
    /\ pc' = [pc EXCEPT ![i] = "done"]
    /\ UNCHANGED <<api_secret, base_url_credential, dataset_id, document_name, text, data,
                   metadata_json, metadata_list, existing_document_id, operation, url,
                   metadata_result, exc, failed_at, requests, slept, credentials, fn, args,
                   ret>>

\* two invocations whose steps interleave, against a dataset without the document
InitConcurrent == InitInvocations(1..2, 0..2)
NextConcurrent ==
    LET ConcurrentWriteResponse == \E i \in 1..2 : InvocationWriteResponse(i)
    IN
    LET ConcurrentWriteRequest == \E i \in 1..2 : InvocationWriteRequest(i)
    IN
    LET ConcurrentFindResponse == \E i \in 1..2 : InvocationFindResponse(i)
    IN
    LET ConcurrentFindRequest == \E i \in 1..2 : InvocationFindRequest(i, FALSE)
    IN
    \/ ConcurrentFindRequest
    \/ ConcurrentFindResponse
    \/ ConcurrentWriteRequest
    \/ ConcurrentWriteResponse
SpecConcurrent == InitConcurrent /\ [][NextConcurrent]_vars

\* MaxRuns invocations run one after the other
InitSequential == InitInvocations(1..MaxRuns, {0, 1, MaxOthers - 1, MaxOthers})
NextSequential ==
    LET SequentialWriteResponse == \E i \in 1..MaxRuns : InvocationWriteResponse(i)
    IN
    LET SequentialWriteRequest == \E i \in 1..MaxRuns : InvocationWriteRequest(i)
    IN
    LET SequentialFindResponse == \E i \in 1..MaxRuns : InvocationFindResponse(i)
    IN
    LET SequentialFindRequest == \E i \in 1..MaxRuns : InvocationFindRequest(i, TRUE)
    IN
    \/ SequentialFindRequest
    \/ SequentialFindResponse
    \/ SequentialWriteRequest
    \/ SequentialWriteResponse
SpecSequential == InitSequential /\ [][NextSequential]_vars

\* ---- C27 ----
CreateRequests == SelectSeq(requests, IsCreateRequest)
\* the documents of the requested name the dataset holds
Homonyms == {k \in 1..Len(remote.documents) : Get(remote.documents[k], "name") = document_name}

\* C27: of two invocations with the same dataset_id and name whose steps interleave
\* against a dataset that has no document of that name, at most one issues a create call,
\* and the dataset never ends with two documents of that name.
C27_AtomicLookupWrite ==
    /\ Len(CreateRequests) <= 1
    /\ Cardinality(Homonyms) <= 1

\* ---- C28 ----
\* the invocations that have ended, and the ids they wrote to
Ended == {i \in DOMAIN pc : pc[i] = "done"}
Creators == {i \in Ended : operation[i] = "create"}

\* C28: over invocations run one after the other with the same dataset_id and name, the
\* first creates and every later one updates that same document, so the dataset never
\* holds more than one document of that name, however many other documents have names
\* that contain the requested name.
C28_SequentialIdempotent ==
    /\ Cardinality(Homonyms) <= 1
    /\ Cardinality(Creators) <= 1
    /\ \A i, j \in Ended : final_document_id[i] = final_document_id[j]

(***************************************************************************)
(* The tools built on the API client (src/utils/dify_knowledge_api.py):    *)
(* one invocation of ListDocumentsTool._invoke or DeleteDocumentTool.      *)
(* _invoke.  fn is the tool, args its tool_parameters, credentials the     *)
(* runtime's credentials, ret what DifyKnowledgeAPI._make_request returned *)
(* or raised, exc the exception the tool's handler receives.               *)
(***************************************************************************)
ApiOutcomes ==
    LET ApiBodies ==
            StatusBodies
            \cup {Body("{\"result\": \"success\"}", JObj([result |-> JStr("success")])),
                  Body("5", JInt(5))}
    IN
    LET ApiStatuses == {200, 201, 202, 204, 400, 404, 500}
    IN
    ProviderExceptions \cup {Response(st, b) : st \in ApiStatuses, b \in ApiBodies}

\* list_documents.py lines 16-17: tool_parameters.get(key, "").strip()
Stripped(parameters, key) == Text(Strip(GetDefault(parameters, key, Text(<<>>)).toks))

\* list_documents.py lines 21-33, delete_document.py lines 19-34: the text of the first
\* check that fails, "" when none does
ToolCheckMessage(tool, parameters, creds) ==
    IF tool = "list_documents" /\ ~Truthy(Stripped(parameters, "dataset_id"))
    THEN "Dataset ID is required."
    ELSE IF tool = "delete_document" /\ ~Truthy(GetDefault(parameters, "dataset_id", JStr("")))
    THEN "Dataset ID is required."
    ELSE IF tool = "delete_document" /\ ~Truthy(GetDefault(parameters, "document_id", JStr("")))
    THEN "Document ID is required."
    ELSE IF ~Truthy(Get(creds, "api_key")) \/ ~Truthy(Get(creds, "base_url"))
    THEN "API key and base URL are required."
    ELSE ""

\* dify_knowledge_api.py lines 13-26 and 52-62, 242-245: the request of delete_document
DeleteRequestOf(parameters, creds) ==
    [method |-> "DELETE",
     url |-> RStripSlash(Get(creds, "base_url").toks)
                 \o <<Slash, Chars("datasets"), Slash,
                      Chars(PyStr(Get(parameters, "dataset_id"))), Slash, Chars("documents"),
                      Slash, Chars(PyStr(Get(parameters, "document_id")))>>,
     headers |-> [Authorization |-> "Bearer " \o PyStr(Get(creds, "api_key")),
                  ContentType |-> "application/json"],
     params |-> PyNone, json |-> PyNone, timeout |-> 60]

\* dify_knowledge_api.py lines 73-81: the message of the exception for an error status
error_message_of(resp) ==
    LET default == JStr("API request failed with status " \o ToString(resp.status))
        error_data == resp.body.json
        text_or_default == IF resp.body.text # "" THEN JStr(resp.body.text) ELSE default
    IN IF error_data = NotJson THEN text_or_default
       ELSE IF IsDict(error_data)
       THEN IF HasKey(error_data, "message") THEN Get(error_data, "message")
            ELSE IF HasKey(error_data, "error") THEN Get(error_data, "error")
            ELSE default
       \* "message" in a list or in a string is a membership or substring test
       ELSE IF IsList(error_data) \/ IsStr(error_data) THEN default
       \* any other value does not support `in`: TypeError, caught at line 80
       ELSE text_or_default

\* dify_knowledge_api.py lines 54-88: _make_request from the outcome of its one request:
\* [exc, value]
make_request(outcome) ==
    IF outcome.t = "exc"
    THEN IF IsRequestsConnectionError(outcome)
         THEN [exc |-> Exc("Exception",
                           "Failed to connect to Dify API. Please check your base URL."),
               value |-> PyNone]
         ELSE IF IsRequestsTimeout(outcome)
         THEN [exc |-> Exc("Exception", "Request to Dify API timed out. Please try again."),
               value |-> PyNone]
         ELSE [exc |-> outcome, value |-> PyNone]
    ELSE IF outcome.status = 204
    THEN [exc |-> NoExc,
          value |-> JObj([success |-> JBool(TRUE),
                          message |-> JStr("Operation completed successfully")])]
    ELSE IF outcome.status \in {200, 201} THEN ResponseJson(outcome)
    ELSE [exc |-> Exc("Exception", PyStr(error_message_of(outcome))), value |-> PyNone]

\* list_documents.py line 76, delete_document.py line 48
ToolErrorText(tool, e) ==
    (IF tool = "list_documents" THEN "Error listing documents: "
     ELSE "Error deleting document: ") \o e.msg

InitTools ==
    LET ToolInvocations ==
            LET DeleteDocumentParameters ==
                    {JObj(Field("dataset_id", d) @@ Field("document_id", doc)) :
                         d \in {Absent, JStr(""), JStr("D1")}, doc \in {Absent, JStr(""), JStr("d1")}}
            IN
            LET ListDocumentsParameters ==
                    {JObj(Field("dataset_id", d) @@ Field("keyword", k)) :
                         d \in {Absent, Text(<<>>), Text(<<Ws>>), Text(<<Chars("D1")>>),
                                Text(<<Ws, Chars("D1"), Ws>>)},
                         k \in {Absent, Text(<<>>), Text(<<Ws>>), Text(<<Chars("Report")>>)}}
            IN
            [fn : {"list_documents"}, args : {<<p>> : p \in ListDocumentsParameters}]
            \cup [fn : {"delete_document"}, args : {<<p>> : p \in DeleteDocumentParameters}]
    IN
    LET ToolCredentials ==
            {JObj(Field("api_key", k) @@ Field("base_url", b)) :
                 k \in {Absent, JStr("key")},
                 b \in {Absent, Text(<<Chars("http://h/v1")>>), Text(<<Chars("http://h/v1"), Slash>>)}}
    IN
    /\ pc = "start"
    /\ NothingInvoked
    /\ credentials \in ToolCredentials
    /\ \E c \in ToolInvocations : fn = c.fn /\ args = c.args
    /\ ret = Unset
    /\ remote = Unset

ToolUntouched ==
    UNCHANGED <<api_secret, base_url_credential, dataset_id, document_name, text, data,
                metadata_json, metadata_list, existing_document_id, operation, url,
                final_document_id, metadata_result, failed_at, slept, credentials, fn, args,
                remote>>

\* list_documents.py lines 15-33, delete_document.py lines 15-34
ToolCheck ==
    /\ pc = "start"
    /\ IF ToolCheckMessage(fn, args[1], credentials) # ""
       THEN /\ messages' = Append(messages, TextMessage(ToolCheckMessage(fn, args[1], credentials)))
            /\ pc' = "done"
       ELSE messages' = messages /\ pc' = "api"
    /\ UNCHANGED <<response, result, exc, requests, ret>>
    /\ ToolUntouched

\* list_documents.py lines 36-44: api.list_documents is called with keyword=, a parameter
\* DifyKnowledgeAPI.list_documents (lines 207-211) does not have, and the call raises
\* TypeError before anything is sent; delete_document.py lines 37-40: api.delete_document
\* reaches _make_request
ToolCallApi ==
    /\ pc = "api"
    /\ IF fn = "list_documents"
       THEN /\ exc' = Exc("TypeError",
                          "DifyKnowledgeAPI.list_documents() got an unexpected keyword argument 'keyword'")
            /\ pc' = "except"
       ELSE exc' = exc /\ pc' = "send"
    /\ UNCHANGED <<response, result, requests, messages, ret>>
    /\ ToolUntouched

\* dify_knowledge_api.py lines 52-62: the request goes out
MakeRequestSend ==
    /\ pc = "send"
    /\ requests' = Append(requests, DeleteRequestOf(args[1], credentials))
    /\ pc' = "wait"
    /\ UNCHANGED <<response, result, exc, messages, ret>>
    /\ ToolUntouched

\* dify_knowledge_api.py lines 55-88, delete_document.py line 40: the request returns or
\* fails, and _make_request returns or raises
MakeRequestReceive ==
    /\ pc = "wait"
    /\ \E outcome \in ApiOutcomes :
          /\ response' = IF outcome.t = "response" THEN outcome ELSE response
          /\ ret' = make_request(outcome)
          /\ IF ret'.exc # NoExc
             THEN exc' = ret'.exc /\ pc' = "except" /\ result' = result
             ELSE exc' = exc /\ pc' = "respond" /\ result' = ret'.value
    /\ UNCHANGED <<requests, messages>>
    /\ ToolUntouched

\* delete_document.py lines 42-45 (list_documents.py lines 46-73 are never reached)
ToolRespond ==
    /\ pc = "respond"
    /\ messages' = messages
           \o <<TextMessage("Document '" \o PyStr(Get(args[1], "document_id"))
                                \o "' deleted successfully from dataset '"
                                \o PyStr(Get(args[1], "dataset_id")) \o "'."),
                JsonMessage(result)>>
    /\ pc' = "done"
    /\ UNCHANGED <<response, result, exc, requests, ret>>
    /\ ToolUntouched

\* list_documents.py lines 75-77, delete_document.py lines 47-49
ToolExcept ==
    /\ pc = "except"
    /\ messages' = Append(messages, TextMessage(ToolErrorText(fn, exc)))
    /\ pc' = "done"
    /\ UNCHANGED <<response, result, exc, requests, ret>>
    /\ ToolUntouched

NextTools ==
    \/ ToolCheck
    \/ ToolCallApi
    \/ MakeRequestSend
    \/ MakeRequestReceive
    \/ ToolRespond
    \/ ToolExcept

SpecTools == InitTools /\ [][NextTools]_vars

\* ---- C29 ----
\* list_documents was invoked with a non-empty dataset_id and both credentials
ListingInvoked ==
    /\ fn = "list_documents"
    /\ Truthy(Stripped(args[1], "dataset_id"))
    /\ Truthy(Get(credentials, "api_key")) /\ Truthy(Get(credentials, "base_url"))

\* C29: list_documents invoked with a non-empty dataset_id and valid credentials, with or
\* without a keyword, issues exactly one GET document-listing request and, when the remote
\* answers 200, yields a text summary followed by the JSON listing, not an error text.
C29_ListDocuments ==
    (ListingInvoked /\ pc = "done") =>
        /\ Len(requests) = 1
        /\ requests[1].method = "GET"
        /\ (response # Unset /\ response.status = 200) => TextThenJson

\* ---- C30 ----
\* _make_request has returned or raised
RequestMade == fn = "delete_document" /\ ret # Unset
SyntheticSuccess ==
    JObj([success |-> JBool(TRUE), message |-> JStr("Operation completed successfully")])
\* the message for an error status: the body's message field, else its error field,
\* else the raw body text, else the default text naming the status
MessageByField(resp) ==
    IF HasField(resp.body, "message") THEN PyStr(resp.body.json.f["message"])
    ELSE IF HasField(resp.body, "error") THEN PyStr(resp.body.json.f["error"])
    ELSE IF resp.body.text # "" THEN resp.body.text
    ELSE "API request failed with status " \o ToString(resp.status)
ConnectionText == "Failed to connect to Dify API. Please check your base URL."
TimedOutText == "Request to Dify API timed out. Please try again."

\* C30: _make_request issues exactly one request per call; 204 returns the synthetic
\* success, 200 and 201 return the decoded body, every other status raises an exception
\* whose message is the body's message field, else its error field, else the raw body,
\* else a default text naming the status; a connection failure and a timeout raise with
\* their fixed messages; no value is returned for a failed request, and the tool turns
\* the exception into a single error text with no JSON message.
C30_MakeRequest ==
    /\ pc = "wait" =>
          \A outcome \in ApiOutcomes :
              /\ outcome.t = "exc" => make_request(outcome).exc # NoExc
              /\ (outcome.t = "exc" /\ outcome.type = "ConnectionError")
                     => make_request(outcome).exc.msg = ConnectionText
              /\ (outcome.t = "exc" /\ outcome.type = "ReadTimeout")
                     => make_request(outcome).exc.msg = TimedOutText
              /\ (outcome.t = "exc" /\ outcome.type = "ConnectTimeout")
                     => make_request(outcome).exc.msg \in {ConnectionText, TimedOutText}
    /\ RequestMade =>
          /\ Len(requests) = 1
          /\ ret.exc = NoExc => (response # Unset /\ response.status \in {200, 201, 204})
          /\ (response # Unset /\ response.status = 204)
                 => ret = [exc |-> NoExc, value |-> SyntheticSuccess]
          /\ (response # Unset /\ response.status \in {200, 201}
                               /\ response.body.json # NotJson)
                 => ret = [exc |-> NoExc, value |-> response.body.json]
          /\ (response # Unset /\ response.status \notin {200, 201, 204})
                 => (ret.exc # NoExc /\ ret.exc.msg = MessageByField(response))
          /\ (pc = "done" /\ ret.exc # NoExc)
                 => (OneText /\ messages[1].text = "Error deleting document: " \o ret.exc.msg)

=============================================================================
